---- MODULE Spec2Model ----
(***************************************************************************)
(* The run-orchestration engine of the pdbg daemon (src/src/lib/daemon.ts):*)
(* the run registry, the dispatch of execution backends, the log buffer    *)
(* and the broadcast of events to WebSocket subscribers.                   *)
(*                                                                         *)
(* The daemon is a single-threaded event loop: a state of the model is a   *)
(* point where the JavaScript stack is empty, except while `cur` is set,   *)
(* which marks the synchronous stretch of the POST /runs handler between   *)
(* runs.set and the return of the response; no other callback can run in   *)
(* that stretch, so every other action is disabled while it lasts.         *)
(***************************************************************************)
EXTENDS Integers, Sequences, FiniteSets, TLC

VARIABLES
  runs,             \* Map<string, RunRecord>               daemon.ts:113
  clients,          \* Set<WsClient>                        daemon.ts:114
  conns,            \* WebSocket connections: state "open" | "closed", token sent
  inbox,            \* what each connection's socket has been sent
  events,           \* per run id, the events handed to broadcast(), in order
  inv,              \* backend invocations: captured run, engine, state, chunks[]
  activeProjectId,  \* cfg.activeProjectId of the project store
  cur,              \* run whose POST /runs handler is between runs.set and return
  resp,             \* result of the HTTP request handled by the last step
  now,              \* the clock, what Date.now() returns
  cfg               \* the DaemonConfig startDaemon was called with

vars == <<runs, clients, conns, inbox, events, inv, activeProjectId, cur, resp,
          now, cfg>>

----------------------------------------------------------------------------
(* Bounds of the model.                                                    *)

MaxRuns == 2         \* Spec: create-run requests accepted
MaxChunks == 2       \* Spec: output chunks one backend invocation emits
MaxChunkLen == 2     \* Spec: characters in one chunk
ApiRuns == 1         \* SpecApi: create-run requests accepted
ApiChunks == 1       \* SpecApi: output chunks one backend invocation emits
ApiConns == 2        \* SpecApi: WebSocket connection attempts
LogChunks == 3       \* SpecLog: output chunks of the run
LogChunkLen == 4     \* SpecLog: characters in one chunk
CreateRuns == 1      \* SpecCreate: create-run requests accepted
CreateChunks == 1    \* SpecCreate: output chunks one backend invocation emits
TimeRuns == 1        \* SpecTime: create-run requests accepted
TimeChunks == 2      \* SpecTime: output chunks one backend invocation emits
MaxTime == 3         \* SpecTime: the clock runs from 0 to MaxTime
WsRuns == 1          \* SpecWs: create-run requests accepted
WsChunks == 1        \* SpecWs: output chunks one backend invocation emits
WsConns == 2         \* SpecWs: WebSocket connection attempts
WsTime == 1          \* SpecWs: the clock runs from 0 to WsTime
HelloRuns == 2       \* SpecHello: create-run requests accepted
HelloChunks == 1     \* SpecHello: output chunks one backend invocation emits
HelloConns == 2      \* SpecHello: WebSocket connection attempts
HelloTime == 1       \* SpecHello: the clock runs from 0 to HelloTime
RegRuns == 2         \* SpecRegistry: create-run requests accepted
RegChunks == 1       \* SpecRegistry: output chunks one backend invocation emits
ListRuns == 2        \* SpecList: create-run requests accepted
ListChunks == 1      \* SpecList: output chunks one backend invocation emits
ListTime == 2        \* SpecList: the clock runs from 0 to ListTime
JobRuns == 1         \* SpecJobs: create-run requests accepted
JobChunks == 1       \* SpecJobs: output chunks one backend invocation emits
DockerRuns == 1      \* SpecDocker: create-run requests accepted
MaxSteps == 3        \* SpecDocker: steps of a run
DockerOut == 1       \* SpecDocker: output chunks the commands of a run write
GhRuns == 2          \* SpecGh: create-run requests accepted
GhChunks == 1        \* SpecGh: output chunks one backend invocation emits
GhTime == 3          \* SpecGh: the clock runs from 0 to GhTime
PollRuns == 1        \* SpecPoll: create-run requests accepted
PollChunks == 1      \* SpecPoll: output chunks one backend invocation emits
PollTime == 3        \* SpecPoll: the clock runs from 0 to PollTime
SubsRuns == 1        \* SpecSubs: create-run requests accepted
SubsConns == 2       \* SpecSubs: WebSocket connection attempts
\* part_004:122 tries 20 times; the model scales the number down.
MaxTries == 2
\* part_004:124 accepts runs created up to 60 000 ms before startTime; the
\* model's clock counts in units of that length.
Window == 1
MaxExitCode == 2     \* backend exit codes are 0 .. MaxExitCode
\* daemon.ts:115 sets 5 * 1024 * 1024; the model scales the cap down so that
\* MaxChunks chunks of MaxChunkLen characters exceed it.
MAX_LOG_BYTES == 3

----------------------------------------------------------------------------
(* Values.                                                                 *)

None == <<>>                       \* undefined / null
Some(v) == <<v>>
IsSome(o) == o /= <<>>

daemonToken == "good"              \* localCfg.daemonToken, never empty
Tokens == {"", "good", "bad"}      \* "" is a missing or empty header

Projects == {"p1"}                 \* ids in the project store
ProjectIds == {"p1", "pX"}         \* "pX" is in no store
ExitCodes == 0 .. MaxExitCode
ErrorMessages == {"boom"}
Jobs == <<"build", "test">>        \* Object.keys(doc.jobs) of the workflow on disk

Range(s) == {s[i] : i \in 1 .. Len(s)}

\* String.prototype.slice(start) for 0 <= start <= length
slice(s, start) == SubSeq(s, start + 1, Len(s))

\* The characters n+1 .. n+len of the output stream of invocation k.  The
\* code never looks into a chunk, so tagging every character with the
\* invocation that emitted it and its position loses no behaviour.
ChunkOf(k, n, len) == [i \in 1 .. len |-> <<k, n + i>>]

Flatten(ss) ==
  LET RECURSIVE F(_)
      F(i) == IF i > Len(ss) THEN <<>> ELSE ss[i] \o F(i + 1)
  IN F(1)

----------------------------------------------------------------------------
(* appendLog, authOrThrow, broadcast                                       *)

appendLogNoSlice(log, chunk) == log \o chunk

appendLogKeepHead(log, chunk) ==
  LET s == log \o chunk
  IN IF Len(s) > MAX_LOG_BYTES THEN SubSeq(s, 1, MAX_LOG_BYTES) ELSE s

\* daemon.ts:118-121: the new value of run.log
appendLog(log, chunk) ==
  LET s == log \o chunk
  IN IF Len(s) > MAX_LOG_BYTES THEN slice(s, Len(s) - MAX_LOG_BYTES) ELSE s

authOrThrowEmptyOk(header) == ~(header /= "" /\ header /= daemonToken)

\* daemon.ts:125-132: TRUE when authOrThrow returns, FALSE when it throws 401
authOrThrow(header) == ~(header = "" \/ header /= daemonToken)

Event(type, id, run, chunk, error) ==
  [type |-> type, id |-> id, run |-> run, chunk |-> chunk, error |-> error]

\* c.send(payload) returns for a socket that is open and throws for one
\* that is broken (daemon.ts:138, 364).  A socket whose hello could not be
\* sent ("orphaned", and "gone" once it has closed) takes no payload either.
SendThrows(c) == conns[c].state \in {"broken", "orphaned", "gone"}

broadcastStopsAtThrow(evt) ==
  /\ events' = [i \in DOMAIN events \cup {evt.id} |->
                  IF i = evt.id
                  THEN (IF i \in DOMAIN events THEN events[i] ELSE <<>>) \o <<evt>>
                  ELSE events[i]]
  /\ inbox' = [c \in DOMAIN inbox |->
                 IF c \in clients /\ \A b \in clients : b <= c => ~SendThrows(b)
                 THEN Append(inbox[c], evt) ELSE inbox[c]]

\* daemon.ts:134-143: the payload is sent to every subscriber in the set,
\* in the order they were added; a send that throws is ignored.
\* events records the call, under the id the event carries.
broadcast(evt) ==
  /\ events' = [i \in DOMAIN events \cup {evt.id} |->
                  IF i = evt.id
                  THEN (IF i \in DOMAIN events THEN events[i] ELSE <<>>) \o <<evt>>
                  ELSE events[i]]
  /\ inbox' = [c \in DOMAIN inbox |->
                 IF c \in clients /\ ~SendThrows(c)
                 THEN Append(inbox[c], evt) ELSE inbox[c]]

\* The request a step handled (its route and its x-pdbg-token header) and
\* the reply: 401 from authOrThrow, 500 for any other thrown error, 200 for
\* a returned value; code 0 while the handler has not returned.
Reply(op, tok, code, body) == [op |-> op, tok |-> tok, code |-> code, body |-> body]
Unauthorized(op, tok) == Reply(op, tok, 401, "Unauthorized")
Ok(op, tok, body) == Reply(op, tok, 200, body)
Failed(op, tok, msg) == Reply(op, tok, 500, msg)
NoResp == Reply("none", "", 0, "none")

----------------------------------------------------------------------------
(* The project store (projects.ts) and the workflow loader.                *)

Undefined == "undefined"           \* an absent string field
Truthy(x) == x /= Undefined /\ x /= ""

ResolveProjectFirst(projectId, active) ==
  IF Truthy(projectId)
  THEN IF projectId \in Projects
       THEN [throws |-> FALSE, project |-> projectId, active |-> projectId]
       ELSE [throws |-> TRUE, project |-> "", active |-> active]
  ELSE [throws |-> FALSE,
        project |-> IF active \in Projects THEN active ELSE CHOOSE p \in Projects : TRUE,
        active |-> active]

\* selectProject, getActiveProject: the project the request resolves to
\* ("" for null), whether selectProject throws, and the stored selection
\* after the call.
ResolveProject(projectId, active) ==
  IF Truthy(projectId)
  THEN IF projectId \in Projects
       THEN [throws |-> FALSE, project |-> projectId, active |-> projectId]
       ELSE [throws |-> TRUE, project |-> "", active |-> active]
  ELSE [throws |-> FALSE,
        project |-> IF active \in Projects THEN active ELSE "",
        active |-> active]

\* What doc.jobs[jobId] finds (workflow-parse.ts:32): doc.jobs is a plain
\* object built by yaml.load, so the lookup also finds the properties every
\* object inherits from Object.prototype, which are truthy.
ObjectPrototype == {"constructor"}
HasProperty(jobs, jobId) == jobId \in Range(jobs) \cup ObjectPrototype

\* workflow-parse.ts:26-39
pickJob(jobs, jobId) ==
  IF Len(jobs) = 0
  THEN [error |-> "No jobs found in workflow YAML.", jobId |-> Undefined]
  ELSE IF Truthy(jobId)
       THEN IF HasProperty(jobs, jobId)
            THEN [error |-> "", jobId |-> jobId]
            ELSE [error |-> "Job not found in workflow.", jobId |-> Undefined]
       ELSE [error |-> "", jobId |-> jobs[1]]

\* workflow-parse.ts:21-24: what loadWorkflowDoc finds at the path, the job
\* ids of the document, or no file at all (readFile rejects).
NoFile == <<"ENOENT">>
Docs == {<<>>, Jobs, NoFile}

\* projects.ts: the rootPath of a stored project
rootPath(p) == CASE p = "p1" -> "/work/p1"

ValidateDefaultBuiltin(body, doc, active) ==
  LET engine == IF body.engine = Undefined THEN "builtin" ELSE body.engine
      res == ResolveProject(body.projectId, active)
      picked == IF doc = NoFile
                THEN [error |-> "ENOENT: no such file or directory", jobId |-> Undefined]
                ELSE pickJob(doc, body.jobId)
      NoProject == "No active project. Run: pdbg project add <path>"
      out(err, jobId) ==
        [error |-> err, engine |-> engine, project |-> res.project,
         active |-> res.active, jobId |-> jobId]
  IN IF res.throws
     THEN out("Project not found", body.jobId)
     ELSE IF engine = "builtin"
          THEN IF ~body.steps /\ Truthy(body.workflowPath)
               THEN IF res.project = "" THEN out(NoProject, body.jobId)
                    ELSE IF picked.error /= "" THEN out(picked.error, body.jobId)
                    ELSE out("", picked.jobId)
               ELSE out("", body.jobId)
          ELSE IF ~Truthy(body.workflowPath)
               THEN out("workflowPath is required for act/github engine", body.jobId)
               ELSE IF res.project = "" THEN out(NoProject, body.jobId)
               ELSE IF picked.error /= "" THEN out(picked.error, body.jobId)
               ELSE out("", picked.jobId)

ValidateRollsBack(body, doc, active) ==
  LET engine == IF body.engine = Undefined THEN "act" ELSE body.engine
      res == ResolveProject(body.projectId, active)
      picked == IF doc = NoFile
                THEN [error |-> "ENOENT: no such file or directory", jobId |-> Undefined]
                ELSE pickJob(doc, body.jobId)
      NoProject == "No active project. Run: pdbg project add <path>"
      out(err, jobId) ==
        [error |-> err, engine |-> engine, project |-> res.project,
         active |-> IF err = "" THEN res.active ELSE active, jobId |-> jobId]
  IN IF res.throws
     THEN out("Project not found", body.jobId)
     ELSE IF engine = "builtin"
          THEN IF ~body.steps /\ Truthy(body.workflowPath)
               THEN IF res.project = "" THEN out(NoProject, body.jobId)
                    ELSE IF picked.error /= "" THEN out(picked.error, body.jobId)
                    ELSE out("", picked.jobId)
               ELSE out("", body.jobId)
          ELSE IF ~Truthy(body.workflowPath)
               THEN out("workflowPath is required for act/github engine", body.jobId)
               ELSE IF res.project = "" THEN out(NoProject, body.jobId)
               ELSE IF picked.error /= "" THEN out(picked.error, body.jobId)
               ELSE out("", picked.jobId)

\* daemon.ts:222-258: the validation of a create-run request.  error is ""
\* when the request is accepted; active is the stored project selection
\* after the handler, which selectProject changes before validation.
Validate(body, doc, active) ==
  LET engine == IF body.engine = Undefined THEN "act" ELSE body.engine
      res == ResolveProject(body.projectId, active)
      picked == IF doc = NoFile
                THEN [error |-> "ENOENT: no such file or directory", jobId |-> Undefined]
                ELSE pickJob(doc, body.jobId)
      NoProject == "No active project. Run: pdbg project add <path>"
      out(err, jobId) ==
        [error |-> err, engine |-> engine, project |-> res.project,
         active |-> res.active, jobId |-> jobId]
  IN IF res.throws
     THEN out("Project not found", body.jobId)
     ELSE IF engine = "builtin"
          THEN IF ~body.steps /\ Truthy(body.workflowPath)
               THEN IF res.project = "" THEN out(NoProject, body.jobId)
                    ELSE IF picked.error /= "" THEN out(picked.error, body.jobId)
                    ELSE out("", picked.jobId)
               ELSE out("", body.jobId)
          ELSE IF ~Truthy(body.workflowPath)
               THEN out("workflowPath is required for act/github engine", body.jobId)
               ELSE IF res.project = "" THEN out(NoProject, body.jobId)
               ELSE IF picked.error /= "" THEN out(picked.error, body.jobId)
               ELSE out("", picked.jobId)

NewRunExitZero(id, body, v) ==
  [id |-> id, status |-> "queued", engine |-> v.engine,
   workflowPath |-> body.workflowPath, jobId |-> v.jobId,
   projectId |-> IF v.project = "" THEN Undefined ELSE v.project,
   projectRoot |-> IF v.project = "" THEN Undefined ELSE rootPath(v.project),
   exitCode |-> Some(0), log |-> <<>>, createdAt |-> now, updatedAt |-> now]

\* daemon.ts:260-280: the record of a new run.  The two Date.now() calls of
\* lines 262 and 263 are adjacent and read the same clock value.
NewRun(id, body, v) ==
  [id |-> id, status |-> "queued", engine |-> v.engine,
   workflowPath |-> body.workflowPath, jobId |-> v.jobId,
   projectId |-> IF v.project = "" THEN Undefined ELSE v.project,
   projectRoot |-> IF v.project = "" THEN Undefined ELSE rootPath(v.project),
   exitCode |-> None, log |-> <<>>, createdAt |-> now, updatedAt |-> now]

NewIdReused == IF DOMAIN runs = {} THEN 1 ELSE Cardinality(DOMAIN runs)

\* nanoid(12): an id no earlier call returned
NewId == Cardinality(DOMAIN runs) + 1

----------------------------------------------------------------------------
(* POST /runs and the fire-and-forget task                                 *)

\* daemon.ts:300-333: the backend the task calls for a run
Dispatch(engine) ==
  IF engine = "act" THEN "executeWorkflowWithAct"
  ELSE IF engine = "github" THEN "executeWorkflowWithGitHub"
  ELSE "executeWorkflowInDocker"

CompletedStaysRunning(run, result) ==
  [run EXCEPT !.log = IF Len(run.log) = 0 THEN result.log ELSE run.log,
              !.updatedAt = now]

\* daemon.ts:335-338: the run after the backend returned result
Completed(run, result) ==
  [run EXCEPT !.exitCode = Some(result.exitCode),
              !.log = IF Len(run.log) = 0 THEN result.log ELSE run.log,
              !.status = IF result.exitCode = 0 THEN "success" ELSE "failed",
              !.updatedAt = now]

CaughtNoExitCode(run) == [run EXCEPT !.status = "failed", !.updatedAt = now]

CaughtStillRunning(run) == [run EXCEPT !.exitCode = Some(1), !.updatedAt = now]

\* daemon.ts:341-343: the run after the backend threw
Caught(run) ==
  [run EXCEPT !.exitCode = Some(1), !.status = "failed", !.updatedAt = now]

StartedRenamed(run) ==
  [run EXCEPT !.status = "running", !.updatedAt = now, !.workflowPath = "renamed"]

StartedStaysQueued(run) == run

\* daemon.ts:287-288: the run when its task starts
Started(run) == [run EXCEPT !.status = "running", !.updatedAt = now]

PostRunsRejectAfterSet(tok, body, doc) ==
  /\ cur = 0
  /\ LET v == Validate(body, doc, activeProjectId)
         id == NewId
     IN IF ~authOrThrow(tok)
        THEN /\ resp' = Unauthorized("POST /runs", tok)
             /\ UNCHANGED <<activeProjectId, runs>>
        ELSE /\ v.error /= ""
             /\ resp' = Failed("POST /runs", tok, v.error)
             /\ activeProjectId' = v.active
             /\ runs' = [i \in DOMAIN runs \cup {id} |->
                           IF i = id THEN NewRun(id, body, v) ELSE runs[i]]
  /\ UNCHANGED <<clients, conns, inbox, events, inv, cur, now, cfg>>

\* daemon.ts:202-283, a request that is refused: the 401 of authOrThrow, or
\* the error validation throws (selectProject has then already run).
PostRunsReject(tok, body, doc) ==
  /\ cur = 0
  /\ LET v == Validate(body, doc, activeProjectId)
     IN IF ~authOrThrow(tok)
        THEN /\ resp' = Unauthorized("POST /runs", tok)
             /\ UNCHANGED activeProjectId
        ELSE /\ v.error /= ""
             /\ resp' = Failed("POST /runs", tok, v.error)
             /\ activeProjectId' = v.active
  /\ UNCHANGED <<runs, clients, conns, inbox, events, inv, cur, now, cfg>>

\* daemon.ts:202-283, a request that is accepted: the record is registered
\* as queued and run.created is broadcast.
PostRunsCreate(tok, body, doc) ==
  /\ cur = 0
  /\ authOrThrow(tok)
  /\ LET v == Validate(body, doc, activeProjectId)
         id == NewId
         run == NewRun(id, body, v)
     IN /\ v.error = ""
        /\ activeProjectId' = v.active
        /\ runs' = [i \in DOMAIN runs \cup {id} |->
                      IF i = id THEN run ELSE runs[i]]
        /\ broadcast(Event("run.created", id, run, <<>>, None))
        /\ cur' = id
  /\ resp' = Reply("POST /runs", tok, 0, "pending")
  /\ UNCHANGED <<clients, conns, inv, now, cfg>>

TaskStartTwice ==
  /\ cur /= 0
  /\ LET run == Started(runs[cur])
     IN /\ runs' = [runs EXCEPT ![cur] = run]
        /\ broadcast(Event("run.updated", cur, run, <<>>, None))
        /\ inv' = inv \o [n \in 1 .. 2 |->
                             [run |-> cur, backend |-> Dispatch(run.engine),
                              state |-> "active", chunks |-> <<>>,
                              result |-> None]]
        /\ resp' = Ok(resp.op, resp.tok, [id |-> cur])
  /\ cur' = 0
  /\ UNCHANGED <<clients, conns, activeProjectId, now, cfg>>

TaskStartBlocking ==
  /\ cur /= 0
  /\ LET run == Completed(Started(runs[cur]), [exitCode |-> 0, log |-> <<>>])
     IN /\ runs' = [runs EXCEPT ![cur] = run]
        /\ broadcast(Event("run.finished", cur, run, <<>>, None))
        /\ inv' = Append(inv, [run |-> cur, backend |-> Dispatch(run.engine),
                               state |-> "returned", chunks |-> <<>>,
                               result |-> Some(0)])
        /\ resp' = Ok(resp.op, resp.tok, [id |-> cur])
  /\ cur' = 0
  /\ UNCHANGED <<clients, conns, activeProjectId, now, cfg>>

\* daemon.ts:286-333 and 348: the task runs up to its first await (the run
\* is running, run.updated is broadcast, the backend is called with a sink
\* bound to this run), then the handler returns the id.
TaskStart ==
  /\ cur /= 0
  /\ LET run == Started(runs[cur])
     IN /\ runs' = [runs EXCEPT ![cur] = run]
        /\ broadcast(Event("run.updated", cur, run, <<>>, None))
        /\ inv' = Append(inv, [run |-> cur, backend |-> Dispatch(run.engine),
                               state |-> "active", chunks |-> <<>>,
                               result |-> None])
        /\ resp' = Ok(resp.op, resp.tok, [id |-> cur])
  /\ cur' = 0
  /\ UNCHANGED <<clients, conns, activeProjectId, now, cfg>>

pushWholeLog(k, r, len) ==
  /\ cur = 0
  /\ LET chunk == ChunkOf(k, Len(Flatten(inv[k].chunks)), len)
     IN /\ inv' = [inv EXCEPT ![k].chunks = Append(@, chunk)]
        /\ runs' = [runs EXCEPT ![r].log = appendLog(@, chunk)]
        /\ broadcast(Event("run.log", runs[r].id, None,
                           appendLog(runs[r].log, chunk), None))
  /\ resp' = NoResp
  /\ UNCHANGED <<clients, conns, activeProjectId, cur, now, cfg>>

\* Invocation k pushes a chunk (docker-executor.ts:29-37, gh-executor
\* part_004:137-145): it is kept in chunks[] and handed to the sink, which
\* runs appendLog on run r (daemon.ts:117-123).
push(k, r, len) ==
  /\ cur = 0
  /\ LET chunk == ChunkOf(k, Len(Flatten(inv[k].chunks)), len)
     IN /\ inv' = [inv EXCEPT ![k].chunks = Append(@, chunk)]
        /\ runs' = [runs EXCEPT ![r].log = appendLog(@, chunk)]
        /\ broadcast(Event("run.log", runs[r].id, None, chunk, None))
  /\ resp' = NoResp
  /\ UNCHANGED <<clients, conns, activeProjectId, cur, now, cfg>>

BackendOutputLate(k, len) == push(k, inv[k].run, len)

BackendOutputShared(k, len) ==
  inv[k].state = "active" /\ push(k, Cardinality(DOMAIN runs), len)

\* A backend emits output while its call is in progress: the data callbacks
\* of a child process all come before its close (part_004:166-181, 190-199),
\* the step output before the stream's end (docker-executor.ts:104-108,
\* 147-158).  The sink is the closure over the invocation's own run
\* (daemon.ts:314, 325, 332).
BackendOutput(k, len) ==
  inv[k].state = "active" /\ push(k, inv[k].run, len)

\* The log a backend returns: chunks.join('') in docker-executor.ts:127 and
\* gh-executor part_004:202.  The act executor's file is not among the
\* sources; ActLog gives it the same contract, after the specification
\* ("streams its combined output; reports its exit code verbatim").
ActLog(chunks) == Flatten(chunks)
ResultLog(i) ==
  IF i.backend = "executeWorkflowWithAct" THEN ActLog(i.chunks)
  ELSE Flatten(i.chunks)

BackendReturnErrorOnFail(k, code) ==
  /\ cur = 0
  /\ inv[k].state = "active"
  /\ LET r == inv[k].run
         result == [exitCode |-> code, log |-> ResultLog(inv[k])]
         run == Completed(runs[r], result)
     IN /\ inv' = [inv EXCEPT ![k].state = "returned", ![k].result = Some(code)]
        /\ runs' = [runs EXCEPT ![r] = run]
        /\ broadcast(Event("run.finished", run.id, run, <<>>,
                           IF code = 0 THEN None ELSE Some("failed")))
  /\ resp' = NoResp
  /\ UNCHANGED <<clients, conns, activeProjectId, cur, now, cfg>>

\* The backend call returns {exitCode, log: chunks.join('')} and the task
\* resumes at daemon.ts:335-339.
BackendReturn(k, code) ==
  /\ cur = 0
  /\ inv[k].state = "active"
  /\ LET r == inv[k].run
         result == [exitCode |-> code, log |-> ResultLog(inv[k])]
         run == Completed(runs[r], result)
     IN /\ inv' = [inv EXCEPT ![k].state = "returned", ![k].result = Some(code)]
        /\ runs' = [runs EXCEPT ![r] = run]
        /\ broadcast(Event("run.finished", run.id, run, <<>>, None))
  /\ resp' = NoResp
  /\ UNCHANGED <<clients, conns, activeProjectId, cur, now, cfg>>

\* The backend call rejects with an Error and the task resumes in the catch
\* block, daemon.ts:340-345.
BackendThrow(k, msg) ==
  /\ cur = 0
  /\ inv[k].state = "active"
  /\ LET r == inv[k].run
         run == Caught(runs[r])
     IN /\ inv' = [inv EXCEPT ![k].state = "thrown"]
        /\ runs' = [runs EXCEPT ![r] = run]
        /\ broadcast(Event("run.finished", run.id, run, <<>>, Some(msg)))
  /\ resp' = NoResp
  /\ UNCHANGED <<clients, conns, activeProjectId, cur, now, cfg>>

----------------------------------------------------------------------------
(* The container backend, executeWorkflowInDocker (docker-executor.ts)     *)

\* daemon.ts:134-143 called for each event of evts in turn.
broadcastAll(evts) ==
  /\ events' = [i \in DOMAIN events \cup {evts[n].id : n \in DOMAIN evts} |->
                  (IF i \in DOMAIN events THEN events[i] ELSE <<>>)
                    \o SelectSeq(evts, LAMBDA e : e.id = i)]
  /\ inbox' = [c \in DOMAIN inbox |->
                 IF c \in clients /\ ~SendThrows(c)
                 THEN inbox[c] \o evts ELSE inbox[c]]

\* A line of the executor's output: its text without the parts that vary,
\* and the step or the exit code it names (0 when it names none).
Line(text, n) == <<text, n>>

\* daemon.ts:117-123 applied to a log for each line of lines in turn.
RECURSIVE appendAll(_, _)
appendAll(log, lines) ==
  IF lines = <<>> THEN log
  ELSE appendAll(appendLog(log, <<Head(lines)>>), Tail(lines))

\* The events of the sink for the lines pushed for run id.
LogEvents(id, lines) ==
  [n \in DOMAIN lines |-> Event("run.log", id, None, <<lines[n]>>, None)]

\* docker-executor.ts:30: chunks.push(s) for each line
Pushed(x, lines) ==
  [x EXCEPT !.chunks = @ \o [n \in DOMAIN lines |-> <<lines[n]>>]]

\* A call of the Docker API that the executor awaits.  res is "pending"
\* until the call settles, then "ok" or "error"; code is the exit code an
\* exec reports.
DockerCall(op, step) == [op |-> op, step |-> step, res |-> "pending", code |-> 0]
Calling(x, op, step) ==
  [x EXCEPT !.pc = op, !.i = step, !.calls = Append(@, DockerCall(op, step))]
Settled(x, res, code) ==
  [x EXCEPT !.calls[Len(x.calls)].res = res, !.calls[Len(x.calls)].code = code]

\* The executor rejects with an Error of this message.
Throwing(x, msg) == [x EXCEPT !.pc = "throw", !.err = msg]

NotReachable == "Docker is not reachable"

\* docker-executor.ts:119-125: the finally block calls container.stop
Finally(x) == Calling(x, "stop", x.i)

\* docker-executor.ts:116-118: the catch block, the line it pushes is
\* added by the caller
Catch(x) == Finally([x EXCEPT !.finalExit = 1])
ExecutorError == Line("Executor error", 0)

loopStopsAtSkip(x, i, lines) ==
  IF i > Len(x.steps) THEN [x |-> Finally([x EXCEPT !.i = i]), lines |-> lines]
  ELSE IF x.steps[i] /= "run"
  THEN [x |-> Finally([x EXCEPT !.i = i]),
        lines |-> lines \o <<Line("==>", i), Line("(skip) no run command", i)>>]
  ELSE [x |-> Calling(x, "exec", i), lines |-> lines \o <<Line("==> $", i)>>]

\* docker-executor.ts:88-108: the loop from step i up to its next await:
\* the steps without a run command are skipped with two lines each, the
\* first step with one is announced and its command handed to exec; after
\* the last step control falls into the finally block.
RECURSIVE loop(_, _, _)
loop(x, i, lines) ==
  IF i > Len(x.steps) THEN [x |-> Finally([x EXCEPT !.i = i]), lines |-> lines]
  ELSE IF x.steps[i] = "uses"
  THEN loop(x, i + 1, lines \o <<Line("==>", i),
                                Line("(skip) action step not supported", i)>>)
  ELSE IF x.steps[i] = "none"
  THEN loop(x, i + 1, lines \o <<Line("==>", i), Line("(skip) no run command", i)>>)
  ELSE [x |-> Calling(x, "exec", i), lines |-> lines \o <<Line("==> $", i)>>]

\* The executor of invocation k resumes after an await, goes on to x and
\* pushes lines on the way: each is kept in chunks[] and handed to the sink
\* (docker-executor.ts:29-37, daemon.ts:332, 117-123).
DockerStep(k, x, lines) ==
  /\ cur = 0
  /\ inv' = [inv EXCEPT ![k] = Pushed(x, lines)]
  /\ runs' = [runs EXCEPT ![inv[k].run].log = appendAll(@, lines)]
  /\ broadcastAll(LogEvents(runs[inv[k].run].id, lines))
  /\ resp' = NoResp
  /\ UNCHANGED <<clients, conns, activeProjectId, cur, now, cfg>>

Awaiting(k, op) == inv[k].state = "active" /\ inv[k].pc = op

\* daemon.ts:286-333 and 348 for a run the container backend executes,
\* with the backend's stretch up to its first await (docker-executor.ts:
\* 26-47): the workspace line when the run has a project root, then ping.
\* steps is run.steps, which the registry of the model does not keep: the
\* list the request or the job of the workflow gave.
DockerTaskStart(steps) ==
  /\ cur /= 0
  /\ LET run == Started(runs[cur])
         lines == IF Truthy(run.projectRoot)
                  THEN <<Line("Using workspace", 0)>> ELSE <<>>
         x == [run |-> cur, backend |-> Dispatch(run.engine), state |-> "active",
               chunks |-> <<>>, result |-> None, steps |-> steps, pc |-> "",
               i |-> 0, finalExit |-> 0, outs |-> 0, err |-> "", calls |-> <<>>]
     IN /\ Dispatch(run.engine) = "executeWorkflowInDocker"
        /\ runs' = [runs EXCEPT ![cur] = [run EXCEPT !.log = appendAll(@, lines)]]
        /\ broadcastAll(<<Event("run.updated", cur, run, <<>>, None)>>
                          \o LogEvents(cur, lines))
        /\ inv' = Append(inv, Pushed(Calling(x, "ping", 0), lines))
        /\ resp' = Ok(resp.op, resp.tok, [id |-> cur])
  /\ cur' = 0
  /\ UNCHANGED <<clients, conns, activeProjectId, now, cfg>>

PingSettlesIgnored(k, ok) ==
  /\ Awaiting(k, "ping")
  /\ DockerStep(k, Calling(Settled(inv[k], IF ok THEN "ok" ELSE "error", 0), "pull", 0),
                <<Line("Pulling image", 0)>>)

\* docker-executor.ts:46-60: docker.ping() settles.  A rejection becomes
\* the 'Docker is not reachable' error; otherwise the pull is announced and
\* started.
PingSettles(k, ok) ==
  /\ Awaiting(k, "ping")
  /\ IF ok
     THEN DockerStep(k, Calling(Settled(inv[k], "ok", 0), "pull", 0),
                     <<Line("Pulling image", 0)>>)
     ELSE DockerStep(k, Throwing(Settled(inv[k], "error", 0), NotReachable), <<>>)

PullSettlesFatal(k, ok) ==
  /\ Awaiting(k, "pull")
  /\ IF ok
     THEN DockerStep(k, Calling(Settled(inv[k], "ok", 0), "create", 0), <<>>)
     ELSE DockerStep(k, Throwing(Settled(inv[k], "error", 0), "boom"),
                     <<Line("(warn) failed to pull", 0)>>)

\* docker-executor.ts:58-80: the pull settles (docker.pull or the progress
\* it is followed by).  A failure pushes the warning; either way
\* createContainer is called.
PullSettles(k, ok) ==
  /\ Awaiting(k, "pull")
  /\ DockerStep(k, Calling(Settled(inv[k], IF ok THEN "ok" ELSE "error", 0), "create", 0),
                IF ok THEN <<>> ELSE <<Line("(warn) failed to pull", 0)>>)

\* docker-executor.ts:71-85: createContainer settles.  It is outside the
\* try block, so a rejection is the executor's; otherwise the container
\* exists and is started.
CreateSettles(k, ok) ==
  /\ Awaiting(k, "create")
  /\ IF ok
     THEN DockerStep(k, Calling(Settled(inv[k], "ok", 0), "start", 0), <<>>)
     ELSE DockerStep(k, Throwing(Settled(inv[k], "error", 0), "boom"), <<>>)

\* docker-executor.ts:85-86, 116-121: container.start() settles.
StartSettles(k, ok) ==
  /\ Awaiting(k, "start")
  /\ IF ok
     THEN DockerStep(k, Calling(Settled(inv[k], "ok", 0), "mkdir", 0), <<>>)
     ELSE DockerStep(k, Catch(Settled(inv[k], "error", 0)), <<ExecutorError>>)

\* docker-executor.ts:86-108, 116-121: exec(container, 'mkdir -p /work')
\* settles; the exit code it resolves with is not looked at.
MkdirSettles(k, ok, code) ==
  /\ Awaiting(k, "mkdir")
  /\ IF ok
     THEN LET l == loop(Settled(inv[k], "ok", code), 1, <<>>)
          IN DockerStep(k, l.x, l.lines)
     ELSE DockerStep(k, Catch(Settled(inv[k], "error", 0)), <<ExecutorError>>)

\* docker-executor.ts:105-108, 151-152: the command of the step in progress
\* writes to stdout or stderr.
StepOutput(k) ==
  /\ Awaiting(k, "exec")
  /\ inv[k].outs < DockerOut
  /\ DockerStep(k, [inv[k] EXCEPT !.outs = @ + 1], <<Line("output", inv[k].i)>>)

ExecSettlesNoBreak(k, ok, code) ==
  /\ Awaiting(k, "exec")
  /\ IF ~ok
     THEN DockerStep(k, Catch(Settled(inv[k], "error", 0)), <<ExecutorError>>)
     ELSE IF code /= 0
     THEN LET l == loop([Settled(inv[k], "ok", code) EXCEPT !.finalExit = code],
                        inv[k].i + 1, <<Line("(step failed) exit code", code)>>)
          IN DockerStep(k, l.x, l.lines)
     ELSE LET l == loop(Settled(inv[k], "ok", code), inv[k].i + 1, <<>>)
          IN DockerStep(k, l.x, l.lines)

\* docker-executor.ts:105-125, 130-162: the exec of step i settles.  A
\* rejection of any of its awaits lands in the catch block; a nonzero exit
\* code is pushed, becomes the final exit code and ends the loop; after a
\* zero exit code the loop goes on with step i + 1.
ExecSettles(k, ok, code) ==
  /\ Awaiting(k, "exec")
  /\ IF ~ok
     THEN DockerStep(k, Catch(Settled(inv[k], "error", 0)), <<ExecutorError>>)
     ELSE IF code /= 0
     THEN DockerStep(k, Finally([Settled(inv[k], "ok", code) EXCEPT !.finalExit = code]),
                     <<Line("(step failed) exit code", code)>>)
     ELSE LET l == loop(Settled(inv[k], "ok", code), inv[k].i + 1, <<>>)
          IN DockerStep(k, l.x, l.lines)

StopSettlesFatal(k, ok) ==
  /\ Awaiting(k, "stop")
  /\ IF ok
     THEN DockerStep(k, [Settled(inv[k], "ok", 0) EXCEPT !.pc = "return"], <<>>)
     ELSE DockerStep(k, Throwing(Settled(inv[k], "error", 0), "boom"), <<>>)

\* docker-executor.ts:119-127: container.stop settles; a rejection is
\* ignored and the executor goes on to its return statement.
StopSettles(k, ok) ==
  /\ Awaiting(k, "stop")
  /\ DockerStep(k, [Settled(inv[k], IF ok THEN "ok" ELSE "error", 0)
                      EXCEPT !.pc = "return"], <<>>)

\* docker-executor.ts:127 and daemon.ts:335-339: the executor returns
\* {exitCode: finalExit, log: chunks.join('')} and the task resumes.
DockerReturns(k) == Awaiting(k, "return") /\ BackendReturn(k, inv[k].finalExit)

\* docker-executor.ts:50-54, 71 and daemon.ts:340-345: the executor rejects
\* and the task resumes in its catch block.
DockerThrows(k) == Awaiting(k, "throw") /\ BackendThrow(k, inv[k].err)

----------------------------------------------------------------------------
(* The hosted backend, executeWorkflowWithGitHub (gh-executor, part_004)   *)

GhInvocations == {k \in DOMAIN inv : inv[k].backend = "executeWorkflowWithGitHub"}

\* The runs of the workflow that exist at GitHub: one that somebody else
\* started at time 0, and for each invocation whose trigger GitHub has
\* acted on, the run that trigger created; its databaseId is the number of
\* the invocation.
Unrelated == [databaseId |-> 0, createdAt |-> 0]
RemoteRuns ==
  {Unrelated} \cup
    {[databaseId |-> k, createdAt |-> inv[k].created[1]] :
       k \in {j \in GhInvocations : IsSome(inv[j].created)}}

\* part_004:107-119, gh run list: the runs, the newest first.
RECURSIVE NewestFirst(_)
NewestFirst(rs) ==
  IF rs = {} THEN <<>>
  ELSE LET top == CHOOSE r \in rs :
                    \A o \in rs : \/ o.createdAt < r.createdAt
                                  \/ /\ o.createdAt = r.createdAt
                                     /\ o.databaseId <= r.databaseId
       IN <<top>> \o NewestFirst(rs \ {top})
listRuns == NewestFirst(RemoteRuns)

\* part_004:124: runs.find(r => createdAt >= startTime - 60_000), the
\* matches in list order; find returns the first of them.
Recent(rs, startTime) == SelectSeq(rs, LAMBDA r : r.createdAt >= startTime - Window)

GhMove(k, x) ==
  /\ cur = 0
  /\ inv' = [inv EXCEPT ![k] = x]
  /\ resp' = NoResp
  /\ UNCHANGED <<runs, clients, conns, inbox, events, activeProjectId, cur, now, cfg>>

\* daemon.ts:286-333 and 348 for a run of the hosted backend, with the
\* backend's stretch up to its first await (part_004:133-164): startTime
\* is read and gh workflow run is spawned.
GhTaskStart ==
  /\ cur /= 0
  /\ LET run == Started(runs[cur])
     IN /\ Dispatch(run.engine) = "executeWorkflowWithGitHub"
        /\ runs' = [runs EXCEPT ![cur] = run]
        /\ broadcast(Event("run.updated", cur, run, <<>>, None))
        /\ inv' = Append(inv, [run |-> cur, backend |-> Dispatch(run.engine),
                               state |-> "active", chunks |-> <<>>,
                               result |-> None, pc |-> "trigger",
                               startTime |-> now, tries |-> 0,
                               created |-> None, runId |-> None])
        /\ resp' = Ok(resp.op, resp.tok, [id |-> cur])
  /\ cur' = 0
  /\ UNCHANGED <<clients, conns, activeProjectId, now, cfg>>

\* GitHub acts on the trigger of invocation k and creates the run, stamped
\* with the time of its creation.
RemoteCreates(k) ==
  /\ inv[k].state = "active" /\ inv[k].pc \in {"trigger", "poll", "sleep"}
  /\ inv[k].created = None
  /\ GhMove(k, [inv[k] EXCEPT !.created = Some(now)])

\* part_004:164-184: gh workflow run closes.  With a nonzero code the
\* executor rejects, otherwise it calls waitForRunId, which lists the runs.
TriggerCloses(k, code) ==
  /\ Awaiting(k, "trigger")
  /\ IF code /= 0
     THEN BackendThrow(k, "gh workflow run failed")
     ELSE GhMove(k, [inv[k] EXCEPT !.pc = "poll"])

\* part_004:107-126, 184-189: gh run list settles.  When it fails, the
\* rejection of execFile leaves waitForRunId and the executor at once.
\* Otherwise the first run of the listing that is recent enough gives the
\* run id, and gh run watch is spawned for it; with no such run the loop
\* sleeps.
PollSettles(k, ok) ==
  /\ Awaiting(k, "poll")
  /\ LET recent == Recent(listRuns, inv[k].startTime)
     IN IF ~ok THEN BackendThrow(k, "gh run list failed")
        ELSE IF recent /= <<>>
        THEN GhMove(k, [inv[k] EXCEPT !.pc = "watch",
                                      !.runId = Some(recent[1].databaseId)])
        ELSE GhMove(k, [inv[k] EXCEPT !.pc = "sleep"])

SleepEndsUnbounded(k) ==
  /\ Awaiting(k, "sleep")
  /\ GhMove(k, [inv[k] EXCEPT !.pc = "poll",
                              !.tries = IF @ + 1 < MaxTries THEN @ + 1 ELSE @])

\* part_004:122, 126-128: the sleep ends; the loop lists again, or gives
\* up after its last try.
SleepEnds(k) ==
  /\ Awaiting(k, "sleep")
  /\ IF inv[k].tries + 1 < MaxTries
     THEN GhMove(k, [inv[k] EXCEPT !.pc = "poll", !.tries = @ + 1])
     ELSE BackendThrow(k, "Failed to resolve GitHub Actions run ID")

\* part_004:166-167, 190-191: gh writes to stdout or stderr.
GhOutput(k, len) ==
  /\ inv[k].pc \in {"trigger", "watch"}
  /\ BackendOutput(k, len)

\* part_004:188-202 and daemon.ts:335-339: gh run watch closes and the
\* executor returns its exit code.
WatchCloses(k, code) == Awaiting(k, "watch") /\ BackendReturn(k, code)

----------------------------------------------------------------------------
(* The other HTTP endpoints                                                *)

\* daemon.ts:160-164 and 173: a run without its log
Summary(run) == [run EXCEPT !.log = Undefined]

sortOldestFirst(rs) ==
  LET RECURSIVE S(_)
      S(n) ==
        IF n = 0 THEN <<>>
        ELSE LET prev == S(n - 1)
                 k == Cardinality({i \in 1 .. Len(prev) :
                                     prev[i].createdAt <= rs[n].createdAt})
             IN SubSeq(prev, 1, k) \o <<rs[n]>> \o SubSeq(prev, k + 1, Len(prev))
  IN S(Len(rs))

\* Array.prototype.sort((a, b) => b.createdAt - a.createdAt), daemon.ts:164
\* and 372: descending by createdAt, and stable, so that runs with the same
\* createdAt stay in the order of the registry (insertion order).
sortNewestFirst(rs) ==
  LET RECURSIVE S(_)
      S(n) ==
        IF n = 0 THEN <<>>
        ELSE LET prev == S(n - 1)
                 k == Cardinality({i \in 1 .. Len(prev) :
                                     prev[i].createdAt >= rs[n].createdAt})
             IN SubSeq(prev, 1, k) \o <<rs[n]>> \o SubSeq(prev, k + 1, Len(prev))
  IN S(Len(rs))

\* daemon.ts:145-155
GetStatus(tok) ==
  /\ cur = 0
  /\ resp' = IF authOrThrow(tok)
             THEN Ok("GET /status", tok, [ok |-> TRUE, runs |-> Cardinality(DOMAIN runs)])
             ELSE Unauthorized("GET /status", tok)
  /\ UNCHANGED <<runs, clients, conns, inbox, events, inv, activeProjectId, cur, now, cfg>>

\* daemon.ts:157-166
GetRuns(tok) ==
  /\ cur = 0
  /\ resp' = IF authOrThrow(tok)
             THEN Ok("GET /runs", tok,
                     [runs |-> sortNewestFirst([i \in DOMAIN runs |-> Summary(runs[i])])])
             ELSE Unauthorized("GET /runs", tok)
  /\ UNCHANGED <<runs, clients, conns, inbox, events, inv, activeProjectId, cur, now, cfg>>

GetRunThrows(tok, id) ==
  /\ cur = 0
  /\ resp' = IF ~authOrThrow(tok) THEN Unauthorized("GET /runs/:id", tok)
             ELSE IF id \notin DOMAIN runs THEN Failed("GET /runs/:id", tok, "not_found")
             ELSE Ok("GET /runs/:id", tok, [run |-> Summary(runs[id]), log |-> runs[id].log])
  /\ UNCHANGED <<runs, clients, conns, inbox, events, inv, activeProjectId, cur, now, cfg>>

\* daemon.ts:168-174
GetRun(tok, id) ==
  /\ cur = 0
  /\ resp' = IF ~authOrThrow(tok) THEN Unauthorized("GET /runs/:id", tok)
             ELSE IF id \notin DOMAIN runs THEN Ok("GET /runs/:id", tok, [error |-> "not_found"])
             ELSE Ok("GET /runs/:id", tok, [run |-> Summary(runs[id]), log |-> runs[id].log])
  /\ UNCHANGED <<runs, clients, conns, inbox, events, inv, activeProjectId, cur, now, cfg>>

\* daemon.ts:176-179
GetProjects(tok) ==
  /\ cur = 0
  /\ resp' = IF authOrThrow(tok)
             THEN Ok("GET /projects", tok, [projects |-> Projects, activeProjectId |-> activeProjectId])
             ELSE Unauthorized("GET /projects", tok)
  /\ UNCHANGED <<runs, clients, conns, inbox, events, inv, activeProjectId, cur, now, cfg>>

\* daemon.ts:181-189
PostProjectsSelect(tok, projectId) ==
  /\ cur = 0
  /\ LET res == ResolveProject(projectId, activeProjectId)
     IN IF ~authOrThrow(tok)
        THEN resp' = Unauthorized("POST /projects/select", tok) /\ UNCHANGED activeProjectId
        ELSE IF ~Truthy(projectId)
        THEN resp' = Ok("POST /projects/select", tok, [ok |-> FALSE, error |-> "projectId required"])
             /\ UNCHANGED activeProjectId
        ELSE IF res.throws
        THEN resp' = Failed("POST /projects/select", tok, "Project not found") /\ UNCHANGED activeProjectId
        ELSE resp' = Ok("POST /projects/select", tok, [ok |-> TRUE, project |-> res.project])
             /\ activeProjectId' = res.active
  /\ UNCHANGED <<runs, clients, conns, inbox, events, inv, cur, now, cfg>>

\* daemon.ts:191-199
GetWorkflows(tok) ==
  /\ cur = 0
  /\ resp' = IF ~authOrThrow(tok) THEN Unauthorized("GET /workflows", tok)
             ELSE IF activeProjectId \notin Projects
             THEN Ok("GET /workflows", tok, [workflows |-> <<>>, activeProject |-> Undefined])
             ELSE Ok("GET /workflows", tok, [workflows |-> <<"ci.yml">>, activeProject |-> activeProjectId])
  /\ UNCHANGED <<runs, clients, conns, inbox, events, inv, activeProjectId, cur, now, cfg>>

----------------------------------------------------------------------------
(* GET /ws                                                                 *)

\* daemon.ts:369-374: the snapshot sent to a new subscriber
Hello == [type |-> "hello", runs |-> sortNewestFirst(runs)]

WsConnectAddFirst(tok) ==
  /\ cur = 0
  /\ IF ~authOrThrow(tok)
     THEN /\ conns' = Append(conns, [state |-> "closed", tok |-> tok])
          /\ inbox' = Append(inbox, <<>>)
          /\ clients' = clients \cup {Len(conns) + 1}
     ELSE /\ conns' = Append(conns, [state |-> "open", tok |-> tok])
          /\ clients' = clients \cup {Len(conns) + 1}
          /\ inbox' = Append(inbox, <<Hello>>)
  /\ resp' = NoResp
  /\ UNCHANGED <<runs, events, inv, activeProjectId, cur, now, cfg>>

WsConnectHelloToAll(tok) ==
  /\ cur = 0
  /\ IF ~authOrThrow(tok)
     THEN /\ conns' = Append(conns, [state |-> "closed", tok |-> tok])
          /\ inbox' = Append(inbox, <<>>)
          /\ UNCHANGED clients
     ELSE /\ conns' = Append(conns, [state |-> "open", tok |-> tok])
          /\ clients' = clients \cup {Len(conns) + 1}
          /\ inbox' = [c \in 1 .. Len(conns) + 1 |->
                         IF c = Len(conns) + 1 THEN <<Hello>>
                         ELSE IF c \in clients THEN Append(inbox[c], Hello)
                         ELSE inbox[c]]
  /\ resp' = NoResp
  /\ UNCHANGED <<runs, events, inv, activeProjectId, cur, now, cfg>>

WsConnectStaleHello(tok) ==
  /\ cur = 0
  /\ IF ~authOrThrow(tok)
     THEN /\ conns' = Append(conns, [state |-> "closed", tok |-> tok])
          /\ inbox' = Append(inbox, <<>>)
          /\ UNCHANGED clients
     ELSE /\ conns' = Append(conns, [state |-> "open", tok |-> tok])
          /\ clients' = clients \cup {Len(conns) + 1}
          /\ inbox' = Append(inbox,
                 <<[type |-> "hello",
                    runs |-> SelectSeq(sortNewestFirst(runs),
                                       LAMBDA r : r.status /= "running")]>>)
  /\ resp' = NoResp
  /\ UNCHANGED <<runs, events, inv, activeProjectId, cur, now, cfg>>

\* daemon.ts:351-379: a connection whose token is refused is closed and the
\* handler returns; any other becomes a subscriber and is sent hello.
WsConnect(tok) ==
  /\ cur = 0
  /\ IF ~authOrThrow(tok)
     THEN /\ conns' = Append(conns, [state |-> "closed", tok |-> tok])
          /\ inbox' = Append(inbox, <<>>)
          /\ UNCHANGED clients
     ELSE /\ conns' = Append(conns, [state |-> "open", tok |-> tok])
          /\ clients' = clients \cup {Len(conns) + 1}
          /\ inbox' = Append(inbox, <<Hello>>)
  /\ resp' = NoResp
  /\ UNCHANGED <<runs, events, inv, activeProjectId, cur, now, cfg>>

\* The socket of a subscriber gets into a state in which send throws; its
\* close event has not been delivered (yet).
WsBreak(c) ==
  /\ cur = 0
  /\ conns[c].state = "open"
  /\ conns' = [conns EXCEPT ![c].state = "broken"]
  /\ resp' = NoResp
  /\ UNCHANGED <<runs, clients, inbox, events, inv, activeProjectId, cur, now, cfg>>

\* daemon.ts:376-378: the socket of a subscriber closes
WsClose(c) ==
  /\ cur = 0
  /\ conns[c].state \in {"open", "broken"}
  /\ conns' = [conns EXCEPT ![c].state = "closed"]
  /\ clients' = clients \ {c}
  /\ resp' = NoResp
  /\ UNCHANGED <<runs, inbox, events, inv, activeProjectId, cur, now, cfg>>

\* daemon.ts:351-374 when client.send throws for the hello (the peer has
\* gone away before the handler runs): the subscriber has been added, the
\* exception leaves the handler, and line 376 is not reached, so no close
\* handler is registered for the socket.
WsConnectHelloThrows(tok) ==
  /\ cur = 0
  /\ authOrThrow(tok)
  /\ conns' = Append(conns, [state |-> "orphaned", tok |-> tok])
  /\ clients' = clients \cup {Len(conns) + 1}
  /\ inbox' = Append(inbox, <<>>)
  /\ resp' = NoResp
  /\ UNCHANGED <<runs, events, inv, activeProjectId, cur, now, cfg>>

\* The socket of such a subscriber closes: nothing listens.
WsCloseUnheard(c) ==
  /\ cur = 0
  /\ conns[c].state = "orphaned"
  /\ conns' = [conns EXCEPT ![c].state = "gone"]
  /\ resp' = NoResp
  /\ UNCHANGED <<runs, clients, inbox, events, inv, activeProjectId, cur, now, cfg>>

----------------------------------------------------------------------------
(* The cross-origin policy                                                 *)

\* daemon.ts:68-76: the configuration, of which the model keeps the
\* allow-list of origins (None when the caller gives none) and the https
\* flag; host and port are the defaults 127.0.0.1 and 17889.  An origin is
\* a pair of scheme and authority.
Config(origins, https) == [allowedOrigins |-> origins, https |-> https]
DefaultConfig == Config(None, FALSE)
Dashboard == <<"https", "pipeline-debugger.vercel.app">>
LocalAuthorities == {"127.0.0.1:17889", "localhost:17889"}

\* daemon.ts:72-76: the allow-list in force
allowedOrigins ==
  IF IsSome(cfg.allowedOrigins) THEN cfg.allowedOrigins[1]
  ELSE {Dashboard} \cup {<<"http", a>> : a \in LocalAuthorities}

\* daemon.ts:94-101: the origin callback of the cors plugin, TRUE when it
\* admits the request; origin is None for a request without Origin header.
corsOrigin(origin) ==
  IF ~IsSome(origin) THEN TRUE
  ELSE IF origin[1] \in allowedOrigins THEN TRUE
  ELSE FALSE

\* A request to op with this Origin header: the cors hook runs before the
\* handler and, when the callback gives an error, answers in its place.
FromOrigin(origin, op, tok, handler) ==
  IF corsOrigin(origin) THEN handler
  ELSE /\ cur = 0
       /\ resp' = Failed(op, tok, "Origin not allowed")
       /\ UNCHANGED <<runs, clients, conns, inbox, events, inv, activeProjectId,
                      cur, now, cfg>>

----------------------------------------------------------------------------
(* The daemon                                                              *)

\* daemon.ts:68-391: the daemon that startDaemon(c) has set up.
InitWith(c) ==
  /\ runs = <<>>
  /\ clients = {}
  /\ conns = <<>>
  /\ inbox = <<>>
  /\ events = <<>>
  /\ inv = <<>>
  /\ activeProjectId \in {Undefined} \cup Projects
  /\ cur = 0
  /\ resp = NoResp
  /\ now = 0
  /\ cfg = c

\* startDaemon() with the default configuration (daemon.ts:68, cfg = {}).
Init == InitWith(DefaultConfig)


\* Time passes: a later Date.now() returns a larger value.  This can happen
\* between any two steps, also between the steps of one create-run handler.
Tick ==
  /\ now' = now + 1
  /\ resp' = IF cur = 0 THEN NoResp ELSE resp
  /\ UNCHANGED <<runs, clients, conns, inbox, events, inv, activeProjectId, cur, cfg>>

\* Create-run requests: a token, a body and the workflow document on disk.
Request(tok, body, doc) == [tok |-> tok, body |-> body, doc |-> doc]
Body(engine, steps, workflowPath, jobId, projectId) ==
  [engine |-> engine, steps |-> steps, workflowPath |-> workflowPath,
   jobId |-> jobId, projectId |-> projectId]
BuiltinSteps == Body("builtin", TRUE, Undefined, Undefined, Undefined)
ActDefault == Body(Undefined, FALSE, "ci.yml", Undefined, "p1")
GitHubActive == Body("github", FALSE, "ci.yml", Undefined, Undefined)
NoWorkflowPath == Body(Undefined, FALSE, Undefined, Undefined, Undefined)

\* The steps of the run lifecycle: the create-run requests reqs, the task,
\* the backends; at most maxRuns runs, maxChunks chunks from one
\* invocation, chunk lengths drawn from lens.
Lifecycle(reqs, maxRuns, maxChunks, lens) ==
  \/ \E q \in reqs : PostRunsReject(q.tok, q.body, q.doc)
  \/ \E q \in reqs :
       Cardinality(DOMAIN runs) < maxRuns /\ PostRunsCreate(q.tok, q.body, q.doc)
  \/ TaskStart
  \/ \E k \in DOMAIN inv, len \in lens :
       Len(inv[k].chunks) < maxChunks /\ BackendOutput(k, len)
  \/ \E k \in DOMAIN inv, code \in ExitCodes : BackendReturn(k, code)
  \/ \E k \in DOMAIN inv, msg \in ErrorMessages : BackendThrow(k, msg)

\* The read endpoints and the project selection.
Api ==
  \/ \E tok \in Tokens : GetStatus(tok)
  \/ \E tok \in Tokens : GetRuns(tok)
  \/ \E tok \in Tokens, id \in 1 .. ApiRuns + 1 : GetRun(tok, id)
  \/ \E tok \in Tokens : GetProjects(tok)
  \/ \E tok \in Tokens, projectId \in {Undefined} \cup ProjectIds :
       PostProjectsSelect(tok, projectId)
  \/ \E tok \in Tokens : GetWorkflows(tok)

\* The subscribers.
Ws(maxConns) ==
  \/ \E tok \in Tokens : Len(conns) < maxConns /\ WsConnect(tok)
  \/ \E c \in DOMAIN conns : WsClose(c)

\* The run lifecycle under concurrent runs.
Requests ==
  {Request(daemonToken, b, Jobs) : b \in {BuiltinSteps, ActDefault, GitHubActive}}
    \cup {Request(daemonToken, NoWorkflowPath, Jobs), Request("bad", BuiltinSteps, Jobs)}
Next == Lifecycle(Requests, MaxRuns, MaxChunks, 1 .. MaxChunkLen)
Spec == Init /\ [][Next]_vars

\* The call of invocation k settles: every backend call is assumed to return
\* or throw in the end (daemon.ts:300-333, the awaited promise).
BackendSettles(k) ==
  /\ k \in DOMAIN inv
  /\ \/ \E code \in ExitCodes : BackendReturn(k, code)
     \/ \E msg \in ErrorMessages : BackendThrow(k, msg)

\* The run lifecycle under the scheduling the event loop gives: a handler
\* that has registered its run goes on to start the task, and a call that is
\* in progress settles.
SpecLive ==
  /\ Init /\ [][Next]_vars
  /\ WF_vars(TaskStart)
  /\ \A k \in 1 .. MaxRuns : WF_vars(BackendSettles(k))

\* Every shape of create-run body: each engine (absent, the three known,
\* one unknown), explicit steps or none, a workflow path or none, no job
\* id, one the workflow has, one it has not, and no project id, a stored
\* one, an unknown one.
Bodies ==
  {Body(e, st, w, j, p) :
     e \in {Undefined, "builtin", "act", "github", "other"}, st \in BOOLEAN,
     w \in {Undefined, "ci.yml"}, j \in {Undefined, "test", "nope"},
     p \in {Undefined} \cup ProjectIds}
CreateRequests == {Request(daemonToken, b, d) : b \in Bodies, d \in Docs}
NextCreate == Lifecycle(CreateRequests, CreateRuns, CreateChunks, {1})
SpecCreate == Init /\ [][NextCreate]_vars

\* The clock, up to max.
Clock(max) == now < max /\ Tick

\* One run under a running clock.
TimeRequests ==
  {Request(daemonToken, b, Jobs) : b \in {BuiltinSteps, ActDefault, NoWorkflowPath}}
NextTime == Lifecycle(TimeRequests, TimeRuns, TimeChunks, {1}) \/ Clock(MaxTime)
SpecTime == Init /\ [][NextTime]_vars

\* Runs and subscribers, some of whose sockets fail, under a running clock.
WsRequests == {Request(daemonToken, b, Jobs) : b \in {BuiltinSteps, NoWorkflowPath}}
NextWs ==
  \/ Lifecycle(WsRequests, WsRuns, WsChunks, {1})
  \/ \E tok \in {daemonToken, "bad"} : Len(conns) < WsConns /\ WsConnect(tok)
  \/ \E c \in DOMAIN conns : WsClose(c)
  \/ \E c \in DOMAIN conns : WsBreak(c)
  \/ Clock(WsTime)
SpecWs == Init /\ [][NextWs]_vars

\* Subscribers connecting while runs are created, start, produce output and
\* finish, under a running clock.
NextHello ==
  \/ /\ Cardinality(DOMAIN runs) < HelloRuns
     /\ PostRunsCreate(daemonToken, BuiltinSteps, Jobs)
  \/ TaskStart
  \/ \E k \in DOMAIN inv : Len(inv[k].chunks) < HelloChunks /\ BackendOutput(k, 1)
  \/ \E k \in DOMAIN inv : BackendReturn(k, 0)
  \/ Len(conns) < HelloConns /\ WsConnect(daemonToken)
  \/ \E c \in DOMAIN conns : WsClose(c)
  \/ Clock(HelloTime)
SpecHello == Init /\ [][NextHello]_vars

\* Every HTTP operation of the daemon over a registry of several runs.
RegRequests ==
  {Request(daemonToken, b, Jobs) : b \in {BuiltinSteps, NoWorkflowPath}}
NextRegistry == Lifecycle(RegRequests, RegRuns, RegChunks, {1}) \/ Api
SpecRegistry == Init /\ [][NextRegistry]_vars

\* The list of runs read while runs are created, produce output and finish,
\* under a running clock.
NextList ==
  \/ /\ Cardinality(DOMAIN runs) < ListRuns
     /\ PostRunsCreate(daemonToken, BuiltinSteps, Jobs)
  \/ TaskStart
  \/ \E k \in DOMAIN inv : Len(inv[k].chunks) < ListChunks /\ BackendOutput(k, 1)
  \/ \E k \in DOMAIN inv, code \in {0, 1} : BackendReturn(k, code)
  \/ \E tok \in Tokens : GetRuns(tok)
  \/ Clock(ListTime)
SpecList == Init /\ [][NextList]_vars

\* Create-run requests for job resolution: every kind of job id, among
\* them the name of a property every object inherits.
JobBodies ==
  {Body(e, st, w, j, p) :
     e \in {Undefined, "builtin", "github"}, st \in BOOLEAN,
     w \in {Undefined, "ci.yml"},
     j \in {Undefined, "", "build", "test", "nope", "constructor"},
     p \in {Undefined, "p1"}}
JobRequests == {Request(daemonToken, b, d) : b \in JobBodies, d \in Docs}
NextJobs == Lifecycle(JobRequests, JobRuns, JobChunks, {1})
SpecJobs == Init /\ [][NextJobs]_vars

\* One run of the container backend: every list of up to MaxSteps steps
\* ("run": a step with a run command, "uses": an action step without one,
\* "none": neither), with and without a project root, against a Docker
\* engine whose every call can fail and whose commands exit with any code.
StepKinds == {"run", "uses", "none"}
StepLists == UNION {[1 .. n -> StepKinds] : n \in 0 .. MaxSteps}
BuiltinWorkflow == Body("builtin", FALSE, "ci.yml", Undefined, "p1")
NextDocker ==
  \/ \E b \in {BuiltinSteps, BuiltinWorkflow} :
       Cardinality(DOMAIN runs) < DockerRuns /\ PostRunsCreate(daemonToken, b, Jobs)
  \/ \E steps \in StepLists : DockerTaskStart(steps)
  \/ \E k \in DOMAIN inv, ok \in BOOLEAN : PingSettles(k, ok)
  \/ \E k \in DOMAIN inv, ok \in BOOLEAN : PullSettles(k, ok)
  \/ \E k \in DOMAIN inv, ok \in BOOLEAN : CreateSettles(k, ok)
  \/ \E k \in DOMAIN inv, ok \in BOOLEAN : StartSettles(k, ok)
  \/ \E k \in DOMAIN inv, ok \in BOOLEAN, code \in {0, 1} : MkdirSettles(k, ok, code)
  \/ \E k \in DOMAIN inv : StepOutput(k)
  \/ \E k \in DOMAIN inv, ok \in BOOLEAN, code \in ExitCodes : ExecSettles(k, ok, code)
  \/ \E k \in DOMAIN inv, ok \in BOOLEAN : StopSettles(k, ok)
  \/ \E k \in DOMAIN inv : DockerReturns(k)
  \/ \E k \in DOMAIN inv : DockerThrows(k)
SpecDocker == Init /\ [][NextDocker]_vars

GitHubProject == Body("github", FALSE, "ci.yml", Undefined, "p1")

\* Hosted runs of one workflow of one repository, started at any times
\* against a GitHub that creates the triggered runs at its own pace.
Hosted(maxRuns, maxChunks, maxTime) ==
  \/ /\ Cardinality(DOMAIN runs) < maxRuns
     /\ PostRunsCreate(daemonToken, GitHubProject, Jobs)
  \/ GhTaskStart
  \/ \E k \in DOMAIN inv : RemoteCreates(k)
  \/ \E k \in DOMAIN inv, code \in {0, 1} : TriggerCloses(k, code)
  \/ \E k \in DOMAIN inv, ok \in BOOLEAN : PollSettles(k, ok)
  \/ \E k \in DOMAIN inv : SleepEnds(k)
  \/ \E k \in DOMAIN inv : Len(inv[k].chunks) < maxChunks /\ GhOutput(k, 1)
  \/ \E k \in DOMAIN inv, code \in {0, 1} : WatchCloses(k, code)
  \/ Clock(maxTime)
NextGh == Hosted(GhRuns, GhChunks, GhTime)
SpecGh == Init /\ [][NextGh]_vars

\* A hosted run under the scheduling the event loop gives: a listing that
\* was asked for settles and a sleep that was started ends (execFile and
\* setTimeout, part_004:108, 126), and the create-run handler, which is
\* synchronous from runs.set to its return, gets there (daemon.ts:282-348).
Polls(k) == k \in DOMAIN inv /\ \E ok \in BOOLEAN : PollSettles(k, ok)
Wakes(k) == k \in DOMAIN inv /\ SleepEnds(k)
NextPoll == Hosted(PollRuns, PollChunks, PollTime)
SpecPoll ==
  /\ Init /\ [][NextPoll]_vars
  /\ WF_vars(GhTaskStart)
  /\ \A k \in 1 .. PollRuns : WF_vars(Polls(k)) /\ WF_vars(Wakes(k))

\* Subscribers that come and go while a run is created, starts and
\* finishes; the hello of some of them cannot be sent.
NextSubs ==
  \/ /\ Cardinality(DOMAIN runs) < SubsRuns
     /\ PostRunsCreate(daemonToken, BuiltinSteps, Jobs)
  \/ TaskStart
  \/ \E k \in DOMAIN inv : BackendReturn(k, 0)
  \/ \E tok \in {daemonToken, "bad"} : Len(conns) < SubsConns /\ WsConnect(tok)
  \/ Len(conns) < SubsConns /\ WsConnectHelloThrows(daemonToken)
  \/ \E c \in DOMAIN conns : WsClose(c)
  \/ \E c \in DOMAIN conns : WsCloseUnheard(c)
  \/ \E c \in DOMAIN conns : WsBreak(c)
SpecSubs == Init /\ [][NextSubs]_vars

\* Requests of browsers and of other tools to a daemon started with any
\* configuration: no allow-list, an empty one, ones with and without the
\* dashboard and the local addresses; http and https.
Origins ==
  {Dashboard, <<"https", "evil.example">>}
    \cup {<<s, a>> : s \in {"http", "https"}, a \in LocalAuthorities}
Configs ==
  {Config(a, h) :
     a \in {None, Some({}), Some({<<"https", "evil.example">>}), Some({Dashboard}),
            Some(Origins)},
     h \in BOOLEAN}
NextCors ==
  \E origin \in {None} \cup {Some(o) : o \in Origins}, tok \in Tokens :
    \/ FromOrigin(origin, "GET /status", tok, GetStatus(tok))
    \/ FromOrigin(origin, "GET /runs", tok, GetRuns(tok))
    \/ FromOrigin(origin, "GET /projects", tok, GetProjects(tok))
SpecCors == (\E c \in Configs : InitWith(c)) /\ [][NextCors]_vars

\* The whole HTTP and WebSocket surface.
ApiRequests ==
  {Request(tok, b, Jobs) : tok \in Tokens, b \in {BuiltinSteps, GitHubActive}}
NextApi == Lifecycle(ApiRequests, ApiRuns, ApiChunks, {1}) \/ Api \/ Ws(ApiConns)
SpecApi == Init /\ [][NextApi]_vars

\* The log buffer of one run under chunks of every length.
LogRequests ==
  {Request(daemonToken, b, Jobs) : b \in {BuiltinSteps, ActDefault, NoWorkflowPath}}
NextLog == Lifecycle(LogRequests, 1, LogChunks, 0 .. LogChunkLen)
SpecLog == Init /\ [][NextLog]_vars

----------------------------------------------------------------------------
(* Properties                                                              *)

Terminal == {"success", "failed"}
Min(a, b) == IF a < b THEN a ELSE b
Last(s) == s[Len(s)]
InvocationsOf(id) == {k \in DOMAIN inv : inv[k].run = id}
Types(id) == [i \in DOMAIN events[id] |-> events[id][i].type]

\* C1: a run enters the registry as queued, and its status changes only by
\* queued -> running, running -> success or running -> failed; no record
\* leaves the registry.
C1_StatusTransitions ==
  [][/\ DOMAIN runs \subseteq DOMAIN runs'
     /\ \A id \in DOMAIN runs' \ DOMAIN runs : runs'[id].status = "queued"
     /\ \A id \in DOMAIN runs :
          runs'[id].status /= runs[id].status =>
            <<runs[id].status, runs'[id].status>> \in
              {<<"queued", "running">>, <<"running", "success">>,
               <<"running", "failed">>}]_vars

\* A run has gone through running to failed while another is still queued
\* inside its create-run handler.
C1_Witness ==
  /\ cur /= 0
  /\ runs[cur].status = "queued"
  /\ \E a \in DOMAIN runs : runs[a].status = "failed"

C3_Outcome ==
  /\ \A k \in DOMAIN inv :
       LET run == runs[inv[k].run]
       IN /\ inv[k].state = "returned" =>
               /\ run.exitCode = inv[k].result
               /\ run.status =
                    IF inv[k].result = Some(0) THEN "success" ELSE "failed"
          /\ inv[k].state = "thrown" =>
               run.status = "failed" /\ run.exitCode = Some(1)
  /\ \A id \in DOMAIN runs :
       runs[id].status \in Terminal => IsSome(runs[id].exitCode)

\* The three outcomes: returned 0, returned 2, thrown.
C3_Witness ==
  \E k \in DOMAIN inv :
    /\ inv[k].result = Some(2)
    /\ runs[inv[k].run].status = "failed"
    /\ \E j \in DOMAIN inv : inv[j].state = "thrown"

\* C4: no run's log is ever longer than MAX_LOG_BYTES, after any appendLog
\* and after the completion step that may assign the returned log.
C4_LogCap == \A id \in DOMAIN runs : Len(runs[id].log) <= MAX_LOG_BYTES

\* A finished run whose backend emitted more than the cap, one chunk alone
\* being longer than the cap.
C4_Witness ==
  \E k \in DOMAIN inv :
    /\ inv[k].state = "returned"
    /\ \E i \in DOMAIN inv[k].chunks : Len(inv[k].chunks[i]) > MAX_LOG_BYTES
    /\ Len(runs[inv[k].run].log) = MAX_LOG_BYTES

\* C5: after the chunks c1..cn of a run's backend, the run's log is the
\* last min(cap, |c1..cn|) characters of c1 \o ... \o cn.
C5_LogIsSuffix ==
  \A k \in DOMAIN inv :
    LET full == Flatten(inv[k].chunks)
    IN runs[inv[k].run].log =
         slice(full, Len(full) - Min(MAX_LOG_BYTES, Len(full)))

\* Three chunks, truncated more than once, the log ending inside a chunk.
C5_Witness ==
  \E k \in DOMAIN inv :
    /\ Len(inv[k].chunks) = 3
    /\ Len(inv[k].chunks[1]) = 2
    /\ Len(inv[k].chunks[2]) = 2
    /\ Len(inv[k].chunks[3]) = 2

HttpOps ==
  {"GET /status", "GET /runs", "GET /runs/:id", "GET /projects",
   "POST /projects/select", "GET /workflows", "POST /runs"}

\* C6: a step that handles an HTTP request whose x-pdbg-token is missing,
\* empty or wrong answers 401 and changes nothing: not the registry, the
\* subscribers, the active project, the broadcast events or the backends.
C6_UnauthorizedNoEffect ==
  [][(resp'.op \in HttpOps /\ resp'.tok /= daemonToken) =>
       /\ resp'.code = 401
       /\ UNCHANGED <<runs, clients, conns, inbox, events, inv,
                      activeProjectId, cur>>]_vars

\* A create-run request without a token is refused while a run is
\* registered, a subscriber is connected and a project is selected.
C6_Witness ==
  /\ resp = Unauthorized("POST /runs", "")
  /\ DOMAIN runs /= {}
  /\ clients /= {}
  /\ activeProjectId = "p1"

\* C7: a WebSocket connection made with a missing or wrong token is closed,
\* is never a subscriber and is never sent anything, neither hello nor a
\* later run event.
C7_BadTokenSocket ==
  \A c \in DOMAIN conns :
    conns[c].tok /= daemonToken =>
      conns[c].state = "closed" /\ c \notin clients /\ inbox[c] = <<>>

\* A refused connection, then an accepted one that has since received
\* hello and a run event.
C7_Witness ==
  /\ Len(conns) = 2
  /\ conns[1].tok = "bad"
  /\ conns[2].tok = daemonToken
  /\ Len(inbox[2]) >= 2

\* C8: every run that has left queued has exactly one backend invocation, a
\* queued run has none yet, no run ever has two invocations in progress,
\* and every invocation belongs to a registered run.
C8_OneInvocation ==
  /\ \A id \in DOMAIN runs :
       /\ Cardinality(InvocationsOf(id)) =
            (IF runs[id].status = "queued" THEN 0 ELSE 1)
       /\ Cardinality({k \in InvocationsOf(id) : inv[k].state = "active"}) <= 1
       /\ runs[id].status = "running" =>
            \E k \in InvocationsOf(id) : inv[k].state = "active"
  /\ \A k \in DOMAIN inv : inv[k].run \in DOMAIN runs

\* Two runs are running at once, each with its own invocation in progress.
C8_Witness ==
  \E a, b \in DOMAIN runs :
    /\ a /= b
    /\ runs[a].status = "running" /\ runs[b].status = "running"
    /\ \E j, k \in DOMAIN inv :
         inv[j].run = a /\ inv[k].run = b /\ Len(inv[j].chunks) >= 1

\* The chunks of the run.log events broadcast for run id, in order.
BroadcastChunks(id) ==
  LET logs == SelectSeq(events[id], LAMBDA e : e.type = "run.log")
  IN [i \in DOMAIN logs |-> logs[i].chunk]

\* C9: every character of a run's log was emitted by an invocation started
\* for that run, and by one invocation only; the run.log events broadcast
\* with a run's id carry exactly the chunks its invocation emitted, in order.
C9_LogIsolation ==
  /\ \A id \in DOMAIN runs :
       /\ \A ch \in Range(runs[id].log) : inv[ch[1]].run = id
       /\ Cardinality({ch[1] : ch \in Range(runs[id].log)}) <= 1
  /\ \A k \in DOMAIN inv : BroadcastChunks(inv[k].run) = inv[k].chunks

\* Two runs running at once, each of which has emitted two chunks.
C9_Witness ==
  /\ Len(inv) = 2
  /\ inv[1].run /= inv[2].run
  /\ \A k \in 1 .. 2 : inv[k].state = "active" /\ Len(inv[k].chunks) = 2

----------------------------------------------------------------------------

Finished(id) ==
  id \in DOMAIN events /\ \E i \in DOMAIN events[id] : events[id][i].type = "run.finished"

\* C11: every run in the registry eventually is success or failed, whatever
\* the other runs do, and run.finished has been broadcast for a run exactly
\* when the run is success or failed.
C11_EveryRunFinishes ==
  /\ \A id \in 1 .. MaxRuns :
       (id \in DOMAIN runs) ~>
         (id \in DOMAIN runs /\ runs[id].status \in Terminal /\ Finished(id))
  /\ [](\A id \in DOMAIN runs : runs[id].status \in Terminal <=> Finished(id))

\* The first run is still running, with output, after a run created later
\* has already finished.
C11_Witness ==
  /\ Len(inv) = 2
  /\ runs[inv[1].run].status = "running" /\ Len(inv[1].chunks) >= 1
  /\ runs[inv[2].run].status = "success" /\ Finished(inv[2].run)

\* The errors the validation of a create-run request throws.
ValidationErrors ==
  {"Project not found", "No active project. Run: pdbg project add <path>",
   "workflowPath is required for act/github engine",
   "ENOENT: no such file or directory", "No jobs found in workflow YAML.",
   "Job not found in workflow."}

\* C12: a step in which a create-run request is refused by validation
\* leaves the registry as it was, broadcasts nothing to any subscriber and
\* starts no backend invocation; and a request is refused only with one of
\* the validation errors.
C12_RejectedNoEffect ==
  [][(resp'.op = "POST /runs" /\ resp'.code = 500) =>
       /\ resp'.body \in ValidationErrors
       /\ UNCHANGED <<runs, events, inbox, inv, clients, cur>>]_vars

\* A request naming a job the workflow does not have is refused while a
\* run is registered and running.
C12_Witness ==
  /\ resp = Failed("POST /runs", daemonToken, "Job not found in workflow.")
  /\ \E id \in DOMAIN runs : runs[id].status = "running"

NoActiveProject == "No active project. Run: pdbg project add <path>"

\* A create-run request with a workflow path and no project id.
PathNoProjectId(q) == Truthy(q.body.workflowPath) /\ ~Truthy(q.body.projectId)

\* The container engine run from explicit steps, which needs no workflow.
BuiltinWithSteps(q) == q.body.engine = "builtin" /\ q.body.steps

\* The step is not one that accepts request q, and it is one that refuses q
\* only if it refuses with 'No active project' and before any registration,
\* event or backend invocation.  (A step that accepts leaves the reply
\* pending, code 0; one that refuses an authenticated request replies 500.)
RefusedNoActiveProject(q) ==
  /\ resp'.code = 0 => ~PostRunsCreate(q.tok, q.body, q.doc)
  /\ (/\ resp'.code = 500
      /\ ~(resp'.body = NoActiveProject /\ UNCHANGED <<runs, events, inv>>)) =>
       ~PostRunsReject(q.tok, q.body, q.doc)

\* C13 as stated: while there is no active project, every create-run
\* request with a workflow path and no project id is refused with 'No
\* active project', for every engine and with or without explicit steps.
C13_Original ==
  [][(activeProjectId \notin Projects /\ resp'.op = "POST /runs") =>
       \A q \in CreateRequests :
         PathNoProjectId(q) => RefusedNoActiveProject(q)]_vars

\* C13, amended: the same, except for the builtin engine with explicit
\* steps, which never consults the project.
C13_NoActiveProject ==
  [][(activeProjectId \notin Projects /\ resp'.op = "POST /runs") =>
       \A q \in CreateRequests :
         (PathNoProjectId(q) /\ ~BuiltinWithSteps(q)) =>
           RefusedNoActiveProject(q)]_vars

\* With no active project, a request is refused with 'No active project'
\* while a run of the builtin engine, created with a workflow path and no
\* project, is running.
C13_Witness ==
  /\ activeProjectId \notin Projects
  /\ resp = Failed("POST /runs", daemonToken, NoActiveProject)
  /\ \E id \in DOMAIN runs :
       /\ runs[id].engine = "builtin" /\ runs[id].workflowPath = "ci.yml"
       /\ runs[id].projectId = Undefined /\ runs[id].status = "running"

\* The create-run handler has just returned {id}.
Returned == resp.op = "POST /runs" /\ resp.code = 200

C15_GetRun ==
  [][\A id \in 1 .. ApiRuns + 1 :
       GetRun(daemonToken, id) =>
         /\ UNCHANGED <<runs, clients, conns, inbox, events, inv,
                        activeProjectId, cur>>
         /\ resp'.code = 200
         /\ id \notin DOMAIN runs => resp'.body = [error |-> "not_found"]
         /\ id \in DOMAIN runs =>
              /\ DOMAIN resp'.body = {"run", "log"}
              /\ \A f \in DOMAIN runs[id] \ {"log"} :
                   resp'.body.run[f] = runs[id][f]
              /\ resp'.body.run.log = Undefined
              /\ resp'.body.log = runs[id].log]_vars

\* The log of a run that is still running is read.
C15_Witness ==
  /\ resp.op = "GET /runs/:id" /\ resp.code = 200
  /\ "log" \in DOMAIN resp.body
  /\ Len(resp.body.log) >= 1
  /\ resp.body.run.status = "running"


\* C16: a queued or running run has no exitCode; exitCode is assigned only
\* in the step that takes the run from running to success or failed, that
\* step always assigns it, and it never changes afterwards.
C16_ExitCodeOnce ==
  /\ [](\A id \in DOMAIN runs :
         runs[id].status \in {"queued", "running"} => runs[id].exitCode = None)
  /\ [][\A id \in DOMAIN runs :
         /\ runs'[id].exitCode /= runs[id].exitCode =>
              /\ runs[id].exitCode = None
              /\ runs[id].status = "running"
              /\ runs'[id].status \in Terminal
         /\ (runs[id].status = "running" /\ runs'[id].status \in Terminal) =>
              IsSome(runs'[id].exitCode)]_vars

\* One run has failed with the exit code 2 its backend returned while
\* another, created before it, is still running without an exit code.
C16_Witness ==
  /\ DOMAIN runs = {1, 2}
  /\ runs[1].status = "running" /\ runs[1].exitCode = None
  /\ runs[2].status = "failed" /\ runs[2].exitCode = Some(2)


\* C17 as stated: every step that changes a run's status or its log leaves
\* the run's updatedAt at the time of the step, and so does the step that
\* registers the run.
C17_UpdatedAtRefreshed ==
  [][/\ \A id \in DOMAIN runs :
          (runs'[id].status /= runs[id].status \/ runs'[id].log /= runs[id].log)
            => runs'[id].updatedAt = now'
     /\ \A id \in DOMAIN runs' \ DOMAIN runs : runs'[id].updatedAt = now']_vars

\* The event a step has handed to broadcast for run id, if any.
Broadcasts(id) ==
  /\ id \in DOMAIN events'
  /\ Len(events'[id]) = 1 + (IF id \in DOMAIN events THEN Len(events[id]) ELSE 0)

\* C18: in a step that broadcasts an event, every subscriber whose send
\* succeeds is sent the event, also those after a subscriber whose send
\* throws; a subscriber whose send throws is sent nothing and stays in the
\* set; and the change that triggered the broadcast is made: the run has
\* the status the event announces, or the log the chunk was appended to.
C18_BroadcastSurvivesThrow ==
  [][\A id \in DOMAIN events' :
       Broadcasts(id) =>
         LET evt == Last(events'[id])
         IN /\ clients' = clients
            /\ \A c \in clients :
                 inbox'[c] = IF SendThrows(c) THEN inbox[c]
                             ELSE Append(inbox[c], evt)
            /\ evt.type = "run.created" => runs'[id].status = "queued"
            /\ evt.type = "run.updated" => runs'[id].status = "running"
            /\ evt.type = "run.finished" => runs'[id].status \in Terminal
            /\ evt.type = "run.log" =>
                 runs'[id].log = appendLog(runs[id].log, evt.chunk)]_vars

\* run.finished has reached the second subscriber although the send to the
\* first subscriber has been throwing since before the run's output; the
\* first is still in the set.
C18_Witness ==
  /\ clients = {1, 2}
  /\ SendThrows(1) /\ ~SendThrows(2)
  /\ Len(inbox[1]) = 2
  /\ Len(inbox[2]) >= 3
  /\ Last(inbox[2]).type = "run.finished"
  /\ \E i \in DOMAIN inbox[2] : inbox[2][i].type = "run.log"

\* rs lists exactly the records of the registry, by createdAt descending.
IsSnapshot(rs, registry) ==
  /\ Len(rs) = Cardinality(DOMAIN registry)
  /\ \A id \in DOMAIN registry : \E i \in DOMAIN rs : rs[i] = registry[id]
  /\ \A i, j \in DOMAIN rs : i < j => rs[i].createdAt >= rs[j].createdAt

\* C19: what an authenticated subscriber has been sent starts with hello
\* and has no other hello, only run events after it; the step that accepts
\* a subscriber sends it hello with all runs of the registry at that time
\* by createdAt descending, and sends nothing to the other subscribers.
C19_HelloFirstOnce ==
  /\ [](\A c \in DOMAIN conns :
         conns[c].tok = daemonToken =>
           /\ Len(inbox[c]) >= 1
           /\ inbox[c][1].type = "hello"
           /\ \A i \in 2 .. Len(inbox[c]) :
                inbox[c][i].type \in
                  {"run.created", "run.updated", "run.log", "run.finished"})
  /\ [][\A c \in DOMAIN conns' \ DOMAIN conns :
         conns'[c].tok = daemonToken =>
           /\ Len(inbox'[c]) = 1
           /\ IsSnapshot(inbox'[c][1].runs, runs)
           /\ \A d \in DOMAIN conns : inbox'[d] = inbox[d]]_vars

\* A subscriber that connected when two runs created at different times
\* were registered received them newest first, then a run event; an earlier
\* subscriber received its own hello and no other.
C19_Witness ==
  /\ Len(conns) = 2
  /\ Len(inbox[2]) >= 2
  /\ Len(inbox[2][1].runs) = 2
  /\ inbox[2][1].runs[1].id = 2
  /\ inbox[2][1].runs[1].createdAt > inbox[2][1].runs[2].createdAt
  /\ Len(inbox[1]) >= 3

\* The number of create-run requests that have succeeded: the run.created
\* events broadcast so far.
Creations ==
  LET RECURSIVE Sum(_)
      Sum(S) ==
        IF S = {} THEN 0
        ELSE LET id == CHOOSE x \in S : TRUE
             IN Len(SelectSeq(events[id], LAMBDA e : e.type = "run.created"))
                  + Sum(S \ {id})
  IN Sum(DOMAIN events)

\* C20: a step that accepts a create-run request adds exactly one record,
\* under an id no record had; no other step changes the set of ids; no step
\* replaces a record by another (its id and createdAt stay); and the count
\* GET /status reports is the number of successful creations.
C20_AppendOnly ==
  /\ [][/\ IF cur = 0 /\ cur' /= 0
          THEN cur' \notin DOMAIN runs /\ DOMAIN runs' = DOMAIN runs \cup {cur'}
          ELSE DOMAIN runs' = DOMAIN runs
       /\ \A id \in DOMAIN runs :
            /\ runs'[id].id = runs[id].id
            /\ runs'[id].createdAt = runs[id].createdAt
            /\ runs[id].status /= "queued" => runs'[id].status /= "queued"]_vars
  /\ [](/\ Cardinality(DOMAIN runs) = Creations
        /\ \A id \in DOMAIN runs : runs[id].id = id
        /\ (resp.op = "GET /status" /\ resp.code = 200) =>
             resp.body.runs = Creations)

\* GET /status reports two runs after two creations, the first of which
\* has already finished.
C20_Witness ==
  /\ resp.op = "GET /status" /\ resp.code = 200
  /\ resp.body.runs = 2
  /\ runs[1].status \in Terminal
  /\ runs[2].status = "running"

\* The values of the type RunEngine (daemon.ts:32).
RunEngine == {"builtin", "act", "github"}

\* C21: every run in the registry has an engine among builtin, act and
\* github, and the backend invoked for a run is the one its engine names:
\* act the local runner, github the hosted backend, builtin the container
\* backend.
C21_EngineKnown ==
  /\ \A id \in DOMAIN runs : runs[id].engine \in RunEngine
  /\ \A k \in DOMAIN inv :
       inv[k].backend =
         CASE runs[inv[k].run].engine = "act" -> "executeWorkflowWithAct"
           [] runs[inv[k].run].engine = "github" -> "executeWorkflowWithGitHub"
           [] runs[inv[k].run].engine = "builtin" -> "executeWorkflowInDocker"
           [] OTHER -> "no backend"


\* C22: an authenticated GET /runs changes no state and returns one entry
\* for every run of the registry and no other, each with the run's fields
\* but without its log, by createdAt descending.
C22_ListRuns ==
  [][GetRuns(daemonToken) =>
       /\ UNCHANGED <<runs, clients, conns, inbox, events, inv,
                      activeProjectId, cur, now>>
       /\ resp'.code = 200
       /\ LET rs == resp'.body.runs
          IN /\ Len(rs) = Cardinality(DOMAIN runs)
             /\ \A id \in DOMAIN runs : \E i \in DOMAIN rs :
                  /\ \A f \in DOMAIN runs[id] \ {"log"} : rs[i][f] = runs[id][f]
                  /\ rs[i].log = Undefined
             /\ \A i, j \in DOMAIN rs :
                  i < j => rs[i].createdAt >= rs[j].createdAt]_vars

\* The list has the run created later first, and the earlier run, whose
\* stored log is not empty, second.
C22_Witness ==
  /\ resp.op = "GET /runs" /\ resp.code = 200
  /\ Len(resp.body.runs) = 2
  /\ resp.body.runs[1].id = 2 /\ resp.body.runs[2].id = 1
  /\ resp.body.runs[1].createdAt > resp.body.runs[2].createdAt
  /\ Len(runs[1].log) >= 1


\* The engine that handles request q, and whether a project resolves for it.
EngineOf(q) == IF q.body.engine = Undefined THEN "act" ELSE q.body.engine
ProjectResolves(q) ==
  LET res == ResolveProject(q.body.projectId, activeProjectId)
  IN ~res.throws /\ res.project /= ""

\* In the current state request q cannot be accepted, and handling it ends
\* in a refusal with the error msg.
RefusedWith(q, msg) ==
  /\ ~ENABLED PostRunsCreate(q.tok, q.body, q.doc)
  /\ ENABLED (PostRunsReject(q.tok, q.body, q.doc) /\ resp'.body = msg)
  /\ ~ENABLED (PostRunsReject(q.tok, q.body, q.doc) /\ resp'.body /= msg)

\* A request without an engine can only be accepted as an act run.
DefaultsToAct(q) ==
  q.body.engine = Undefined =>
    ~ENABLED (PostRunsCreate(q.tok, q.body, q.doc) /\ runs'[cur'].engine /= "act")

\* Every registered act or github run has a workflow path and a project root.
ActGitHubRunsComplete ==
  \A id \in DOMAIN runs :
    runs[id].engine \in {"act", "github"} =>
      Truthy(runs[id].workflowPath) /\ Truthy(runs[id].projectRoot)

WorkflowPathRequired == "workflowPath is required for act/github engine"

\* C23 as stated: a request without engine is handled as act; an act or
\* github request without workflowPath is refused with 'workflowPath is
\* required', one with workflowPath and no resolvable project with 'No
\* active project'; registered act and github runs have workflowPath and
\* projectRoot.
C23_Original ==
  /\ ActGitHubRunsComplete
  /\ cur = 0 =>
       \A q \in CreateRequests :
         /\ DefaultsToAct(q)
         /\ EngineOf(q) \in {"act", "github"} =>
              IF ~Truthy(q.body.workflowPath)
              THEN RefusedWith(q, WorkflowPathRequired)
              ELSE ~ProjectResolves(q) => RefusedWith(q, NoActiveProject)

\* C23, amended: the same, except that a request naming a project id that
\* is not in the store is refused with 'Project not found', with or without
\* workflowPath, because selectProject runs before the other checks.
C23_ActGitHubValidation ==
  /\ ActGitHubRunsComplete
  /\ cur = 0 =>
       \A q \in CreateRequests :
         /\ DefaultsToAct(q)
         /\ EngineOf(q) \in {"act", "github"} =>
              IF ResolveProject(q.body.projectId, activeProjectId).throws
              THEN RefusedWith(q, "Project not found")
              ELSE IF ~Truthy(q.body.workflowPath)
              THEN RefusedWith(q, WorkflowPathRequired)
              ELSE ~ProjectResolves(q) => RefusedWith(q, NoActiveProject)

\* A request without engine and without workflowPath has been refused
\* while a run registered from a request without engine is running as act.
C23_Witness ==
  /\ resp = Failed("POST /runs", daemonToken, WorkflowPathRequired)
  /\ \E id \in DOMAIN runs :
       /\ runs[id].engine = "act" /\ runs[id].status = "running"
       /\ runs[id].projectRoot = "/work/p1"


\* Handling request q loads the workflow file and finds a document.
WorkflowLoaded(q) ==
  /\ Truthy(q.body.workflowPath)
  /\ EngineOf(q) = "builtin" => ~q.body.steps
  /\ ProjectResolves(q)
  /\ q.doc /= NoFile

\* In the current state request q is accepted, and the run is registered
\* with job id j.
AcceptedWithJob(q, j) ==
  /\ ENABLED PostRunsCreate(q.tok, q.body, q.doc)
  /\ ~ENABLED PostRunsReject(q.tok, q.body, q.doc)
  /\ ~ENABLED (PostRunsCreate(q.tok, q.body, q.doc) /\ runs'[cur'].jobId /= j)

\* C24: when handling a create-run request loads a workflow, the request
\* is refused with 'No jobs found' if the workflow declares no job;
\* otherwise it is accepted with the requested job id if that job is
\* declared, accepted with the first declared job if no job id is given,
\* and refused with 'Job not found' if the job id is given and not declared.
C24_JobResolution ==
  cur = 0 =>
    \A q \in JobRequests :
      WorkflowLoaded(q) =>
        IF Len(q.doc) = 0
        THEN RefusedWith(q, "No jobs found in workflow YAML.")
        ELSE IF ~Truthy(q.body.jobId) THEN AcceptedWithJob(q, q.doc[1])
        ELSE IF q.body.jobId \in Range(q.doc)
        THEN AcceptedWithJob(q, q.body.jobId)
        ELSE RefusedWith(q, "Job not found in workflow.")

----------------------------------------------------------------------------
(* The container backend                                                   *)

DockerInvocations == {k \in DOMAIN inv : inv[k].backend = "executeWorkflowInDocker"}
CallsOf(x, ops) == SelectSeq(x.calls, LAMBDA c : c.op \in ops)
Execs(x) == CallsOf(x, {"exec"})
RunSteps(steps) ==
  LET RECURSIVE R(_)
      R(i) == IF i > Len(steps) THEN <<>>
              ELSE (IF steps[i] = "run" THEN <<i>> ELSE <<>>) \o R(i + 1)
  IN R(1)
ExitedNonzero(c) == c.res = "ok" /\ c.code /= 0

\* The exit code the calls to the container determine: 1 when starting the
\* container or running a command raised an error, the code of the step
\* that exited nonzero, 0 otherwise.
ExpectedExit(x) ==
  LET work == CallsOf(x, {"start", "mkdir", "exec"})
  IN IF \E n \in DOMAIN work : work[n].res = "error" THEN 1
     ELSE IF \E n \in DOMAIN Execs(x) : ExitedNonzero(Execs(x)[n])
     THEN Execs(x)[CHOOSE n \in DOMAIN Execs(x) : ExitedNonzero(Execs(x)[n])].code
     ELSE 0

\* C25: the container backend executes the steps that have a command in
\* list order, none left out; a step that exits with a nonzero code c is the
\* last one executed and c is the final exit code, which the run then
\* carries; the final exit code is 0 only if every executed step exited 0.
C25_StepsInOrder ==
  \A k \in DockerInvocations :
    LET x == inv[k]
        E == Execs(x)
        R == RunSteps(x.steps)
    IN /\ Len(E) <= Len(R)
       /\ \A a \in DOMAIN E :
            /\ E[a].step = R[a]
            /\ ExitedNonzero(E[a]) =>
                 /\ a = Len(E)
                 /\ x.finalExit = E[a].code
                 /\ x.state /= "thrown"
                 /\ x.state = "returned" =>
                      /\ x.result = Some(E[a].code)
                      /\ runs[x.run].exitCode = Some(E[a].code)
                      /\ runs[x.run].status = "failed"
       /\ x.state = "returned" /\ x.result = Some(0) =>
            \A a \in DOMAIN E : E[a].res = "ok" /\ E[a].code = 0

\* Two steps with a command ran in order, the second exited 2, a third was
\* left alone, and the run failed with exit code 2.
C25_Witness ==
  \E k \in DockerInvocations :
    /\ inv[k].steps = <<"run", "run", "run">>
    /\ inv[k].state = "returned"
    /\ Len(Execs(inv[k])) = 2
    /\ Execs(inv[k])[2].code = 2
    /\ runs[inv[k].run].exitCode = Some(2)

Created(x) == \E n \in DOMAIN x.calls : x.calls[n].op = "create" /\ x.calls[n].res = "ok"
StopCalls(x) == CallsOf(x, {"stop"})

\* C26: once the container exists, the executor does not settle before it
\* has called container.stop and that call has settled, whichever way the
\* steps went; it then returns, and with the exit code the calls before the
\* stop determine, whether the stop succeeded or not.
C26_AlwaysStopped ==
  \A k \in DockerInvocations :
    LET x == inv[k]
    IN Created(x) /\ (x.pc \in {"return", "throw"} \/ x.state /= "active") =>
         /\ Len(StopCalls(x)) = 1
         /\ StopCalls(x)[1].res /= "pending"
         /\ x.pc = "return"
         /\ x.finalExit = ExpectedExit(x)
         /\ x.state /= "active" =>
              x.state = "returned" /\ x.result = Some(ExpectedExit(x))

\* A step exited 2, stopping the container failed, the call returned 2.
C26_Witness ==
  \E k \in DockerInvocations :
    /\ inv[k].state = "returned"
    /\ StopCalls(inv[k]) /= <<>> /\ StopCalls(inv[k])[1].res = "error"
    /\ inv[k].result = Some(2)

PingFailed(x) == x.calls[1].op = "ping" /\ x.calls[1].res = "error"

\* C27: when ping fails the executor makes no other call to the engine and
\* rejects with the 'Docker is not reachable' error; the run it was called
\* for is then failed with exit code 1 and its run.finished event carries
\* that message.
C27_NotReachable ==
  \A k \in DockerInvocations :
    LET x == inv[k]
        r == x.run
    IN PingFailed(x) =>
         /\ Len(x.calls) = 1
         /\ x.pc = "throw" /\ x.err = NotReachable
         /\ x.state /= "returned"
         /\ x.state = "thrown" =>
              /\ runs[r].status = "failed"
              /\ runs[r].exitCode = Some(1)
              /\ Last(events[r]).type = "run.finished"
              /\ Last(events[r]).error = Some(NotReachable)

C27_Witness ==
  \E k \in DockerInvocations :
    /\ PingFailed(inv[k])
    /\ inv[k].state = "thrown"
    /\ runs[inv[k].run].status = "failed"

PullOf(x) == CallsOf(x, {"pull"})
Warnings(x) == SelectSeq(x.chunks, LAMBDA c : c[1][1] = "(warn) failed to pull")

\* C28: a pull that fails pushes exactly one warning line (one that
\* succeeds none) and createContainer is called next; the call rejects
\* only when createContainer failed, and otherwise returns the exit code
\* that starting the container and the steps determine, which decides the
\* status of the run.
C28_PullNotFatal ==
  \A k \in DockerInvocations :
    LET x == inv[k]
        r == x.run
    IN PullOf(x) /= <<>> /\ PullOf(x)[1].res /= "pending" =>
         /\ Len(Warnings(x)) = (IF PullOf(x)[1].res = "error" THEN 1 ELSE 0)
         /\ CallsOf(x, {"create"}) /= <<>>
         /\ x.pc = "throw" =>
              CallsOf(x, {"create"}) /= <<>> /\ CallsOf(x, {"create"})[1].res = "error"
         /\ x.state = "thrown" => x.pc = "throw"
         /\ x.state = "returned" =>
              /\ x.result = Some(ExpectedExit(x))
              /\ runs[r].status = (IF ExpectedExit(x) = 0 THEN "success" ELSE "failed")

\* The pull failed and the run succeeded.
C28_Witness ==
  \E k \in DockerInvocations :
    /\ PullOf(inv[k]) /= <<>> /\ PullOf(inv[k])[1].res = "error"
    /\ inv[k].state = "returned"
    /\ Execs(inv[k]) /= <<>>
    /\ runs[inv[k].run].status = "success"

----------------------------------------------------------------------------
(* The hosted backend                                                      *)

\* C29: the run id an invocation of the hosted backend resolves is the id
\* of the remote run its own trigger created, and no two invocations
\* resolve the same run id.
C29_OwnRemoteRun ==
  \A k \in GhInvocations :
    IsSome(inv[k].runId) =>
      /\ inv[k].runId = Some(k)
      /\ \A j \in GhInvocations \ {k} : inv[j].runId /= inv[k].runId

----------------------------------------------------------------------------
(* The cross-origin policy                                                 *)

\* The request reaches the handler: the answer is the handler's (200, or
\* the 401 of authOrThrow), not the 500 of the cors hook.
Admitted(origin) ==
  ENABLED (\E tok \in Tokens :
             /\ FromOrigin(origin, "GET /status", tok, GetStatus(tok))
             /\ resp'.code \in {200, 401})
OwnAddresses ==
  {<<IF cfg.https THEN "https" ELSE "http", a>> : a \in LocalAuthorities}

\* C30: under every configuration a request with an Origin header is
\* admitted only if the origin is in the allow-list in force, a request
\* without one is admitted, and the allow-list in force contains the
\* origin of the dashboard and the daemon's own local addresses.
C30_CrossOrigin ==
  /\ \A o \in Origins : Admitted(Some(o)) => o \in allowedOrigins
  /\ Admitted(None)
  /\ {Dashboard} \cup OwnAddresses \subseteq allowedOrigins

----------------------------------------------------------------------------
(* Frame conditions of the run record                                      *)

\* The fields of a run that are written at creation only.
Fixed(run) ==
  [f \in {"id", "createdAt", "engine", "projectId", "projectRoot",
          "workflowPath", "jobId"} |-> run[f]]
ReadOps == {"GET /status", "GET /runs", "GET /runs/:id"}

\* C31: in every step each registered run stays registered with the id,
\* createdAt, engine, projectId, projectRoot, workflowPath and jobId it was
\* created with; a step that answers GET /status, GET /runs or
\* GET /runs/:id, and a step in which a subscriber connects or disconnects,
\* changes no run; and a run carried by a broadcast event is the run as the
\* registry holds it after the step, so broadcasting changed nothing.
C31_FixedFields ==
  [][/\ \A id \in DOMAIN runs :
          id \in DOMAIN runs' /\ Fixed(runs'[id]) = Fixed(runs[id])
     /\ resp'.op \in ReadOps => runs' = runs
     /\ (conns' /= conns \/ clients' /= clients) => runs' = runs
     /\ \A id \in DOMAIN events' :
          \A n \in DOMAIN events'[id] :
            (id \notin DOMAIN events \/ n > Len(events[id])) /\ IsSome(events'[id][n].run)
              => events'[id][n].run = runs'[id]]_vars

\* A run that a project was resolved for has finished and has then been
\* read while a subscriber was connected.
C31_Witness ==
  /\ \E id \in DOMAIN runs :
       runs[id].status \in Terminal /\ runs[id].projectId = "p1"
  /\ resp.op = "GET /runs/:id" /\ resp.code = 200
  /\ clients /= {}

----------------------------------------------------------------------------
(* The discovery of the remote run                                         *)

FailedToResolve == "Failed to resolve GitHub Actions run ID"
Discovering(k) ==
  k \in GhInvocations /\ inv[k].state = "active" /\ inv[k].pc \in {"poll", "sleep"}
\* The listings waitForRunId has asked for.
ListCalls(x) == IF x.pc = "trigger" THEN 0 ELSE x.tries + 1
GaveUp(k) == inv[k].state = "thrown" /\ inv[k].pc \in {"poll", "sleep"}

\* C32 as stated: a discovery that does not return a run id fails with
\* 'Failed to resolve GitHub Actions run ID', after the last of its tries.
C32_Original ==
  \A k \in GhInvocations :
    GaveUp(k) =>
      /\ Last(events[inv[k].run]).error = Some(FailedToResolve)
      /\ ListCalls(inv[k]) = MaxTries

\* C32: the discovery asks for at most MaxTries listings.  A listing that
\* comes back with a matching run ends it with that run's id, one without
\* leads to the sleep; after the sleep that follows the last listing it
\* fails with 'Failed to resolve GitHub Actions run ID', and a listing that
\* itself fails ends it at once with that failure.  Either failure leaves
\* the run failed with exit code 1.  Every discovery ends.
C32_DiscoveryTerminates ==
  /\ [](\A k \in GhInvocations :
          /\ ListCalls(inv[k]) <= MaxTries
          /\ GaveUp(k) =>
               LET r == inv[k].run
                   e == Last(events[r])
               IN /\ runs[r].status = "failed" /\ runs[r].exitCode = Some(1)
                  /\ e.type = "run.finished"
                  /\ \/ /\ e.error = Some(FailedToResolve)
                        /\ inv[k].pc = "sleep" /\ ListCalls(inv[k]) = MaxTries
                     \/ /\ e.error = Some("gh run list failed")
                        /\ inv[k].pc = "poll")
  /\ [][\A k \in GhInvocations :
          Awaiting(k, "poll") /\ inv'[k].state = "active" /\ inv'[k].pc /= "poll" =>
            LET recent == Recent(listRuns, inv[k].startTime)
            IN IF recent /= <<>>
               THEN inv'[k].pc = "watch" /\ inv'[k].runId = Some(recent[1].databaseId)
               ELSE inv'[k].pc = "sleep" /\ inv'[k].runId = None]_vars
  /\ \A k \in 1 .. PollRuns : Discovering(k) ~> (k \in GhInvocations /\ ~Discovering(k))

\* No listing showed a recent run and the discovery gave up after the last.
C32_Witness ==
  \E k \in GhInvocations :
    /\ GaveUp(k)
    /\ Last(events[inv[k].run]).error = Some(FailedToResolve)
    /\ ListCalls(inv[k]) = MaxTries
    /\ runs[inv[k].run].status = "failed"

----------------------------------------------------------------------------
(* Steps without a command                                                 *)

SkipNotices == {"(skip) action step not supported", "(skip) no run command"}
NoticesFor(x, j) ==
  SelectSeq(x.chunks, LAMBDA c : c[1][1] \in SkipNotices /\ c[1][2] = j)
NoCallFailed(x) == \A n \in DOMAIN x.calls : x.calls[n].res /= "error"
\* The steps the loop has dealt with: those before the one whose command
\* is running or ended the loop, all of them once the loop has run out.
Passed(x, j) ==
  /\ x.pc \in {"exec", "stop", "return"} /\ j < x.i
  /\ \E n \in DOMAIN x.calls : x.calls[n].op = "mkdir" /\ x.calls[n].res = "ok"

\* C33: a step without a run command is never handed to exec; when the
\* loop passes it, it pushes one skip notice for it, of the kind of the
\* step, and goes on: if no call failed and no command exited nonzero,
\* every step with a command has been executed when the executor returns,
\* and the exit code is 0; so a job of such steps only, in a container that
\* came up, returns 0 and the run is a success.
C33_SkippedSteps ==
  \A k \in DockerInvocations :
    LET x == inv[k]
        E == Execs(x)
    IN /\ \A a \in DOMAIN E : x.steps[E[a].step] = "run"
       /\ \A j \in DOMAIN x.steps :
            x.steps[j] /= "run" =>
              /\ Len(NoticesFor(x, j)) = (IF Passed(x, j) THEN 1 ELSE 0)
              /\ Passed(x, j) =>
                   NoticesFor(x, j)[1][1][1] =
                     (IF x.steps[j] = "uses" THEN "(skip) action step not supported"
                      ELSE "(skip) no run command")
       /\ (/\ x.state = "returned" /\ NoCallFailed(x)
           /\ \A a \in DOMAIN E : E[a].code = 0) =>
            /\ Len(E) = Len(RunSteps(x.steps))
            /\ x.result = Some(0)
            /\ runs[x.run].status = "success"

\* A job with a command between two steps without one has returned 0 and
\* both of them were skipped with a notice.
C33_Witness ==
  \E k \in DockerInvocations :
    /\ inv[k].steps = <<"uses", "run", "none">>
    /\ inv[k].state = "returned" /\ inv[k].result = Some(0)
    /\ Len(Execs(inv[k])) = 1
    /\ Len(NoticesFor(inv[k], 1)) = 1 /\ Len(NoticesFor(inv[k], 3)) = 1

----------------------------------------------------------------------------
(* The run.log events                                                      *)

LogEventsOf(es) == SelectSeq(es, LAMBDA e : e.type = "run.log")

\* C34: a step in which an invocation emits a chunk hands the broadcaster
\* one more event for the invocation's run, a run.log with the run's id and
\* that chunk and nothing else, whether or not the append truncated the
\* log; and no step adds a run.log event without a chunk being emitted for
\* that run.  So the run.log events of a run are its chunks, in order.
C34_OneLogEventPerChunk ==
  [][/\ \A k \in DOMAIN inv :
          inv'[k].chunks /= inv[k].chunks =>
            LET r == inv[k].run
                chunk == Last(inv'[k].chunks)
            IN /\ inv'[k].chunks = Append(inv[k].chunks, chunk)
               /\ events'[r] =
                    Append(events[r], Event("run.log", runs[r].id, None, chunk, None))
               /\ runs[r].id = r
     /\ \A id \in DOMAIN events :
          LogEventsOf(events'[id]) /= LogEventsOf(events[id]) =>
            \E k \in DOMAIN inv :
              inv[k].run = id /\ inv'[k].chunks /= inv[k].chunks]_vars

\* Three chunks were emitted, the log was truncated, and the three run.log
\* events carry the three chunks.
C34_Witness ==
  \E k \in DOMAIN inv :
    /\ Len(inv[k].chunks) = 3
    /\ Len(Flatten(inv[k].chunks)) > MAX_LOG_BYTES
    /\ runs[inv[k].run].log /= Flatten(inv[k].chunks)
    /\ BroadcastChunks(inv[k].run) = inv[k].chunks

----------------------------------------------------------------------------
(* The run.finished event                                                  *)

FinishedEvents(id) == SelectSeq(events[id], LAMBDA e : e.type = "run.finished")
Threw(id) == \E k \in InvocationsOf(id) : inv[k].state = "thrown"

\* C35: every run.finished event carries the run as it is stored from
\* then on, with status success or failed and an exit code; it carries an
\* error message exactly when the backend call of the run threw, so none
\* when the call returned, whatever the exit code.
C35_FinishedEvent ==
  \A id \in DOMAIN events :
    \A n \in DOMAIN FinishedEvents(id) :
      LET e == FinishedEvents(id)[n]
      IN /\ e.id = id
         /\ e.run = runs[id]
         /\ e.run.status \in Terminal
         /\ IsSome(e.run.exitCode)
         /\ IsSome(e.error) <=> Threw(id)
         /\ \A k \in InvocationsOf(id) :
              inv[k].state = "returned" =>
                e.error = None /\ e.run.exitCode = inv[k].result

\* One run whose backend returned 2 and one whose backend threw: the first
\* run.finished has no error, the second has one.
C35_Witness ==
  \E a, b \in DOMAIN events :
    /\ FinishedEvents(a) /= <<>> /\ FinishedEvents(b) /= <<>>
    /\ FinishedEvents(a)[1].run.exitCode = Some(2)
    /\ FinishedEvents(a)[1].error = None
    /\ IsSome(FinishedEvents(b)[1].error)

----------------------------------------------------------------------------
(* The project selection of a create-run request                           *)

NamesStoredProject(q) == Truthy(q.body.projectId) /\ q.body.projectId \in Projects

\* C36: in every state, handling a create-run request that names a stored
\* project leaves that project selected, whether the request is accepted or
\* refused, and a refusal leaves the registry as it was; a request that
\* names no project or one that is not stored leaves the selection alone.
\* While no project is selected, a request that names p1 and is refused for
\* its missing workflowPath does select p1.
C36_SelectionPersists ==
  cur = 0 =>
    /\ activeProjectId = Undefined =>
         ENABLED (/\ PostRunsReject(daemonToken,
                                    Body("act", FALSE, Undefined, Undefined, "p1"), Jobs)
                 /\ activeProjectId' = "p1")
    /\ \A q \in CreateRequests :
         /\ ~ENABLED (/\ PostRunsReject(q.tok, q.body, q.doc)
                      /\ ~(runs' = runs /\ events' = events))
         /\ IF NamesStoredProject(q)
            THEN /\ ~ENABLED (/\ PostRunsReject(q.tok, q.body, q.doc)
                              /\ activeProjectId' /= q.body.projectId)
                 /\ ~ENABLED (/\ PostRunsCreate(q.tok, q.body, q.doc)
                              /\ activeProjectId' /= q.body.projectId)
            ELSE /\ ~ENABLED (/\ PostRunsReject(q.tok, q.body, q.doc)
                              /\ activeProjectId' /= activeProjectId)
                 /\ ~ENABLED (/\ PostRunsCreate(q.tok, q.body, q.doc)
                              /\ activeProjectId' /= activeProjectId)

\* A request was refused for its missing workflowPath, nothing is
\* registered, and p1 is selected.
C36_Witness ==
  /\ resp = Failed("POST /runs", daemonToken, WorkflowPathRequired)
  /\ runs = <<>>
  /\ activeProjectId = "p1"

----------------------------------------------------------------------------
(* Subscribers whose connection has closed                                 *)

HasClosed(c) == conns[c].state \in {"closed", "gone"}

\* C37: a connection that has closed is not in the subscriber set, so
\* that broadcast does not call send for it any more, whichever way its
\* connect handler went.
C37_ClosedIsRemoved ==
  \A c \in DOMAIN conns : HasClosed(c) => c \notin clients

\* The lifecycle stage a status stands for, and the stage an event
\* announces: run.created 1, run.updated 2, run.finished 3.
Stage(status) ==
  IF status = "queued" THEN 1 ELSE IF status = "running" THEN 2 ELSE 3
StageOf(e) ==
  IF e.type = "run.created" THEN 1 ELSE IF e.type = "run.updated" THEN 2 ELSE 3
IsLifecycle(e) == e.type \in {"run.created", "run.updated", "run.finished"}

\* The stage at which subscriber c's hello showed run id, 0 if the run was
\* not in it.
SnapshotStage(c, id) ==
  LET rs == inbox[c][1].runs
  IN IF \E i \in DOMAIN rs : rs[i].id = id
     THEN Stage((CHOOSE r \in {rs[i] : i \in DOMAIN rs} : r.id = id).status)
     ELSE 0

\* The lifecycle events of run id that subscriber c was sent.
LifecycleSent(c, id) ==
  SelectSeq(inbox[c], LAMBDA e : e.type /= "hello" /\ IsLifecycle(e) /\ e.id = id)

\* C38: for a subscriber that is still connected and every registered run,
\* the run is in its hello or it was sent the run's run.created, never both
\* and never twice; and the lifecycle events it was sent for the run are
\* exactly those broadcast for the run beyond the stage its hello showed.
C38_AnnouncedOnce ==
  \A c \in DOMAIN conns :
    (conns[c].state = "open" /\ conns[c].tok = daemonToken) =>
      \A id \in DOMAIN runs :
        LET sent == LifecycleSent(c, id)
            created == SelectSeq(sent, LAMBDA e : e.type = "run.created")
        IN /\ Len(created) <= 1
           /\ (SnapshotStage(c, id) = 0) <=> (Len(created) = 1)
           /\ sent = SelectSeq(events[id],
                       LAMBDA e : IsLifecycle(e) /\ StageOf(e) > SnapshotStage(c, id))

\* A subscriber connected while run 1 was running: its hello showed run 1
\* alone, and it was then sent run 1's run.finished and run 2's run.created
\* and run.updated.
C38_Witness ==
  /\ Len(conns) >= 1 /\ conns[1].state = "open"
  /\ DOMAIN runs = {1, 2}
  /\ SnapshotStage(1, 1) = 2 /\ SnapshotStage(1, 2) = 0
  /\ Len(LifecycleSent(1, 1)) = 1
  /\ Len(LifecycleSent(1, 2)) >= 2

Emitted(id, type) == Len(SelectSeq(events[id], LAMBDA e : e.type = type))

\* C40: events are emitted only for registered ids; for every registered
\* run there is one run.created, carrying status queued; one run.updated,
\* carrying status running, once its task has started (none before); and
\* one run.finished if the run is success or failed, none otherwise.
C40_LifecycleOnce ==
  /\ DOMAIN events = DOMAIN runs
  /\ \A id \in DOMAIN runs :
       /\ Emitted(id, "run.created") = 1
       /\ Emitted(id, "run.updated") = (IF id = cur THEN 0 ELSE 1)
       /\ Emitted(id, "run.finished") = (IF runs[id].status \in Terminal THEN 1 ELSE 0)
       /\ \A n \in DOMAIN events[id] :
            /\ events[id][n].id = id
            /\ events[id][n].type = "run.created" => events[id][n].run.status = "queued"
            /\ events[id][n].type = "run.updated" => events[id][n].run.status = "running"
            /\ events[id][n].type = "run.finished" => events[id][n].run.status \in Terminal

\* One run has had all three lifecycle events, with log events between
\* them, while a second has only been created.
C40_Witness ==
  /\ \E id \in DOMAIN runs :
       /\ Emitted(id, "run.updated") = 1
       /\ Emitted(id, "run.finished") = 1
       /\ Emitted(id, "run.log") >= 1
  /\ cur /= 0 /\ Emitted(cur, "run.created") = 1 /\ Emitted(cur, "run.updated") = 0

============================================================================
